---- MODULE Spec2Model ----
(***************************************************************************)
(* Model of the persistra node-graph engine: the Project/Node/Socket data  *)
(* model with push invalidation and pull computation (core/project.py)     *)
(* and the branch-parallel ExecutionEngine (core/engine.py).               *)
(***************************************************************************)
EXTENDS Integers, Sequences, FiniteSets, TLC

\* ------------------------------------------------------------------------
\* Bounds
\* ------------------------------------------------------------------------
NumNodes == 3
MaxParam == 1
MaxOps == 4
MaxConnOps == 3
MaxWorkers == 2
MaxIter == 3
MaxIterOps == 3
MaxData == 1

\* nodes of the project handed to the planner alone
PlanSize == 4

\* ------------------------------------------------------------------------
\* Static structure of the project: nodes and their sockets
\* ------------------------------------------------------------------------
Nodes == 1..NumNodes

\* Number of input sockets the node's operation declares: the nodes of the
\* project are, in turn, a source (0 inputs), a unary and a binary operation.
InCount(n) == (n - 1) % 3

\* project.nodes, in add_node order
NodeList == [k \in 1..NumNodes |-> k]

\* Project.__init__: auto-compute off, autosave every 5 minutes
DefaultSettings == [auto_compute |-> FALSE, autosave_interval_minutes |-> 5]

InSock(n, i) == [is_input |-> TRUE, node |-> n, idx |-> i]
OutSock(n) == [is_input |-> FALSE, node |-> n, idx |-> 1]

InSockets == {InSock(n, i) : n \in Nodes, i \in 1..2} \cap
             {s \in [is_input : {TRUE}, node : Nodes, idx : 1..2] : s.idx <= InCount(s.node)}
OutSockets == {OutSock(n) : n \in Nodes}
Sockets == InSockets \cup OutSockets

\* Parameter values; the operation raises when its parameter is FailParam.
FailParam == 0
ParamValues == 0..MaxParam
\* Parameter.value starts at the declared default
DefaultParam == MaxParam

\* _cached_outputs: << >> is the empty dict, <<v>> the dict {"out": v}
NoCache == << >>
NoError == "none"

VARIABLES
    \* Project / Node / Socket (core/project.py)
    nodes,      \* Project.nodes
    settings,   \* Project.auto_compute and Project.autosave_interval_minutes
    conns,      \* Socket.connections, per socket
    dirty,      \* Node._is_dirty
    state,      \* Node.state
    cache,      \* Node._cached_outputs
    error,      \* Node._error
    param,      \* the value of the node's parameter
    \* the caller of the project API
    lastOp,     \* the last API call and what it returned
    nops,       \* number of API calls made
    \* ExecutionEngine (core/engine.py)
    max_workers, \* 0 stands for None
    dirty_only,
    cancel,     \* _cancel_event
    running,    \* _running
    mpc,        \* position of the thread inside run()
    branches,   \* the planner's branches
    parallel,   \* whether run() took the threaded path
    next,       \* index of the next branch task to start
    batch_start,
    wst,        \* per branch task: "new", "loop", "compute", "done"
    widx,       \* per branch task: index of the current node in its branch
    wstack,     \* per branch task: the open compute() frames
    results,    \* per branch task: BranchTask.results
    all_results,
    \* one call of Node.invalidate taken step by step
    istack,     \* the open invalidate() frames
    visits,     \* per node: how often the call entered its fan-out loop
    \* IteratorNode over a CompositeNode body (core/composite.py)
    it,         \* the IteratorNode's fields
    body,       \* the body CompositeNode's fields
    inner,      \* the fields of the node inside the body's sub-project
    down,       \* the fields of a sub-project node fed by the inner node
    itpar,      \* the iterator's parameter values and the inner operation
    ext,        \* what the node connected to the input socket returns
    calls,      \* the input dicts of the inner operation's calls in the last loop
    passes,     \* the result of each pass of the last loop
    converged,  \* what _has_converged returned
    itops       \* number of calls made on the iterator

nodeVars == <<conns, dirty, state, cache, error, param>>
apiVars == <<lastOp, nops>>
engVars == <<max_workers, dirty_only, cancel, running, mpc, branches, parallel,
             next, batch_start, wst, widx, wstack, results, all_results>>
invVars == <<istack, visits>>
projVars == <<nodes, settings>>
iterVars == <<it, body, inner, down, itpar, ext, calls, passes, converged, itops>>
vars == <<projVars, nodeVars, apiVars, engVars, invVars, iterVars>>

\* The mutable runtime fields of all nodes, as one record
NodeFields == [dirty |-> dirty, state |-> state, cache |-> cache, error |-> error]

\* ------------------------------------------------------------------------
\* Sequence helpers
\* ------------------------------------------------------------------------
RECURSIVE Remove(_, _)
\* list.remove(x): removes the first occurrence
Remove(s, x) ==
    IF s = << >> THEN << >>
    ELSE IF Head(s) = x THEN Tail(s)
    ELSE <<Head(s)>> \o Remove(Tail(s), x)

Contains(s, x) == \E k \in 1..Len(s) : s[k] = x

\* ------------------------------------------------------------------------
\* Node.invalidate (push)
\* ------------------------------------------------------------------------
RECURSIVE InvalidateOp(_, _, _), InvalidateEach(_, _, _)

\* invalidate without the ripple to the connected inputs
InvalidateEachNone(cn, nf, targets) == nf


\* invalidate that resets error and state before looking at the dirty flag
InvalidateResetFirst(cn, nf, n) ==
    LET nf1 == [nf EXCEPT !.error[n] = NoError, !.state[n] = "dirty"]
    IN IF nf.dirty[n] THEN nf1
       ELSE InvalidateEach(cn,
                           [nf1 EXCEPT !.dirty[n] = TRUE, !.cache[n] = NoCache],
                           cn[OutSock(n)])

InvalidateOp(cn, nf, n) ==
    IF nf.dirty[n] THEN nf
    ELSE InvalidateEach(cn,
                        [nf EXCEPT !.dirty[n] = TRUE,
                                   !.cache[n] = NoCache,
                                   !.error[n] = NoError,
                                   !.state[n] = "dirty"],
                        cn[OutSock(n)])

\* the loop over out_sock.connections
InvalidateEach(cn, nf, targets) ==
    IF targets = << >> THEN nf
    ELSE InvalidateEach(cn, InvalidateOp(cn, nf, Head(targets).node), Tail(targets))

\* ------------------------------------------------------------------------
\* Operation.execute and Node.compute (pull)
\* ------------------------------------------------------------------------
OpRaises(n, p) == p = FailParam

\* The output map of a successful execute: a term over the node, its
\* parameter and the gathered inputs, so equal maps mean equal computations.
Execute(n, inputs, p) == <<[node |-> n, param |-> p, inputs |-> inputs]>>

RECURSIVE ComputeOp(_, _, _, _, _), GatherInputs(_, _, _, _, _, _, _)

\* compute without the early return for clean nodes
ComputeNoCacheCheck(cn, pm, nf, n, path) ==
    IF n \in path
    THEN [nf |-> [nf EXCEPT !.state[n] = "computing"],
          ok |-> FALSE, val |-> "RecursionError", execd |-> << >>,
          unwound |-> << >>]
    ELSE LET nf1 == [nf EXCEPT !.state[n] = "computing"]
             g == GatherInputs(cn, pm, nf1, n, 1, << >>, path \cup {n})
         IN IF ~g.ok
            THEN [nf |-> [g.nf EXCEPT !.error[n] = g.val, !.state[n] = "error"],
                  ok |-> FALSE, val |-> g.val, execd |-> g.execd,
                  unwound |-> Append(g.unwound, n)]
            ELSE IF OpRaises(n, pm[n])
            THEN [nf |-> [g.nf EXCEPT !.error[n] = "OpError", !.state[n] = "error"],
                  ok |-> FALSE, val |-> "OpError", execd |-> Append(g.execd, n),
                  unwound |-> <<n>>]
            ELSE LET out == Execute(n, g.val, pm[n])
                 IN [nf |-> [g.nf EXCEPT !.cache[n] = out,
                                         !.dirty[n] = FALSE,
                                         !.state[n] = "valid"],
                     ok |-> TRUE, val |-> out, execd |-> Append(g.execd, n),
                     unwound |-> << >>]

\* compute whose except clause records nothing when the exception came from
\* an upstream compute()
ComputeNoRecord(cn, pm, nf, n, path) ==
    IF ~nf.dirty[n]
    THEN [nf |-> nf, ok |-> TRUE, val |-> nf.cache[n], execd |-> << >>,
          unwound |-> << >>]
    ELSE IF n \in path
    THEN \* a dirty node pulled from inside its own compute(): the recursion
         \* never bottoms out and ends in a RecursionError
         [nf |-> [nf EXCEPT !.state[n] = "computing"],
          ok |-> FALSE, val |-> "RecursionError", execd |-> << >>,
          unwound |-> << >>]
    ELSE LET nf1 == [nf EXCEPT !.state[n] = "computing"]
             g == GatherInputs(cn, pm, nf1, n, 1, << >>, path \cup {n})
         IN IF ~g.ok
            THEN [nf |-> g.nf,
                  ok |-> FALSE, val |-> g.val, execd |-> g.execd,
                  unwound |-> Append(g.unwound, n)]
            ELSE IF OpRaises(n, pm[n])
            THEN [nf |-> [g.nf EXCEPT !.error[n] = "OpError", !.state[n] = "error"],
                  ok |-> FALSE, val |-> "OpError", execd |-> Append(g.execd, n),
                  unwound |-> <<n>>]
            ELSE LET out == Execute(n, g.val, pm[n])
                 IN [nf |-> [g.nf EXCEPT !.cache[n] = out,
                                         !.dirty[n] = FALSE,
                                         !.state[n] = "valid"],
                     ok |-> TRUE, val |-> out, execd |-> Append(g.execd, n),
                     unwound |-> << >>]

\* compute() of node n; path is the chain of compute() frames already open.
\* Result: the node fields afterwards, whether it returned (ok) or raised,
\* the returned map or the exception message, the operations executed, and
\* the nodes whose except clause ran, innermost first.
ComputeOp(cn, pm, nf, n, path) ==
    IF ~nf.dirty[n]
    THEN [nf |-> nf, ok |-> TRUE, val |-> nf.cache[n], execd |-> << >>,
          unwound |-> << >>]
    ELSE IF n \in path
    THEN \* a dirty node pulled from inside its own compute(): the recursion
         \* never bottoms out and ends in a RecursionError
         [nf |-> [nf EXCEPT !.state[n] = "computing"],
          ok |-> FALSE, val |-> "RecursionError", execd |-> << >>,
          unwound |-> << >>]
    ELSE LET nf1 == [nf EXCEPT !.state[n] = "computing"]
             g == GatherInputs(cn, pm, nf1, n, 1, << >>, path \cup {n})
         IN IF ~g.ok
            THEN [nf |-> [g.nf EXCEPT !.error[n] = g.val, !.state[n] = "error"],
                  ok |-> FALSE, val |-> g.val, execd |-> g.execd,
                  unwound |-> Append(g.unwound, n)]
            ELSE IF OpRaises(n, pm[n])
            THEN [nf |-> [g.nf EXCEPT !.error[n] = "OpError", !.state[n] = "error"],
                  ok |-> FALSE, val |-> "OpError", execd |-> Append(g.execd, n),
                  unwound |-> <<n>>]
            ELSE LET out == Execute(n, g.val, pm[n])
                 IN [nf |-> [g.nf EXCEPT !.cache[n] = out,
                                         !.dirty[n] = FALSE,
                                         !.state[n] = "valid"],
                     ok |-> TRUE, val |-> out, execd |-> Append(g.execd, n),
                     unwound |-> << >>]

\* the loop over self.input_sockets, from socket i on; acc maps the sockets
\* gathered so far to their values
GatherInputs(cn, pm, nf, n, i, acc, path) ==
    IF i > InCount(n)
    THEN [nf |-> nf, ok |-> TRUE, val |-> acc, execd |-> << >>, unwound |-> << >>]
    ELSE IF cn[InSock(n, i)] = << >>
    THEN GatherInputs(cn, pm, nf, n, i + 1, acc, path)
    ELSE LET source_sock == cn[InSock(n, i)][1]
             up == ComputeOp(cn, pm, nf, source_sock.node, path)
         IN IF ~up.ok THEN up
            ELSE IF Len(up.val) = 0
            THEN [nf |-> up.nf, ok |-> FALSE, val |-> "KeyError", execd |-> up.execd,
                  unwound |-> << >>]
            ELSE LET rest == GatherInputs(cn, pm, up.nf, n, i + 1,
                                          acc @@ (i :> up.val[1]), path)
                 IN [rest EXCEPT !.execd = up.execd \o rest.execd]

\* ------------------------------------------------------------------------
\* Socket.connect_to / disconnect / disconnect_all
\* ------------------------------------------------------------------------
\* disconnect that removes the edge from the list of self only
DisconnectOneSided(cn, nf, self, other) ==
    LET cn1 == [cn EXCEPT ![self] = Remove(@, other)]
        tgt == IF self.is_input THEN self.node ELSE other.node
    IN [cn |-> cn1, nf |-> InvalidateOp(cn1, nf, tgt)]

\* disconnect that invalidates the node of the output socket
DisconnectInvalidateSource(cn, nf, self, other) ==
    LET cn1 == [cn EXCEPT ![self] = Remove(@, other)]
        cn2 == [cn1 EXCEPT ![other] = Remove(@, self)]
        tgt == IF self.is_input THEN other.node ELSE self.node
    IN [cn |-> cn2, nf |-> InvalidateOp(cn2, nf, tgt)]

\* Result of a socket operation: connection lists and node fields
DisconnectOp(cn, nf, self, other) ==
    LET cn1 == [cn EXCEPT ![self] = Remove(@, other)]
        cn2 == [cn1 EXCEPT ![other] = Remove(@, self)]
        tgt == IF self.is_input THEN self.node ELSE other.node
    IN [cn |-> cn2, nf |-> InvalidateOp(cn2, nf, tgt)]

RECURSIVE DisconnectEach(_, _, _, _)
DisconnectEach(cn, nf, self, others) ==
    IF others = << >> THEN [cn |-> cn, nf |-> nf]
    ELSE LET r == DisconnectOp(cn, nf, self, Head(others))
         IN DisconnectEach(r.cn, r.nf, self, Tail(others))

DisconnectAllOp(cn, nf, self) == DisconnectEach(cn, nf, self, cn[self])

\* ------------------------------------------------------------------------
\* Socket types (core/types.py)
\* ------------------------------------------------------------------------
\* dtype=None
NoDtype == "none"
\* shape=None; inside a shape, AnyDim is the None of "any size on that axis"
NoShape == << >>
AnyDim == -1

ConcreteType(wrapper_cls, dtype, shape) ==
    [kind |-> "concrete", wrapper_cls |-> wrapper_cls, dtype |-> dtype, shape |-> shape]
UnionType(types) == [kind |-> "union", types |-> types]
AnyType == [kind |-> "any"]

\* issubclass among the wrappers of core/objects.py: every wrapper derives
\* from DataWrapper and from nothing else
IsSubclass(c, base) == c = base \/ base = "DataWrapper"

RECURSIVE TypeAccepts(_, _)
\* self.accepts(other)
TypeAccepts(self, other) ==
    IF self.kind = "any" THEN TRUE
    ELSE IF self.kind = "union"
    THEN \E k \in 1..Len(self.types) : TypeAccepts(self.types[k], other)
    ELSE IF other.kind = "concrete"
    THEN /\ IsSubclass(other.wrapper_cls, self.wrapper_cls)
         /\ ~(self.dtype # NoDtype /\ other.dtype # NoDtype /\ self.dtype # other.dtype)
         /\ (self.shape # NoShape /\ other.shape # NoShape) =>
                /\ Len(self.shape) = Len(other.shape)
                /\ \A d \in 1..Len(self.shape) :
                      self.shape[d] = AnyDim \/ self.shape[d] = other.shape[d]
    ELSE IF other.kind = "union"
    THEN \E k \in 1..Len(other.types) : TypeAccepts(self, other.types[k])
    ELSE other.kind = "any"

\* The socket types the operations declare: a source produces a TimeSeries,
\* the other operations a plain DataWrapper; the first input of an operation
\* takes any DataWrapper, the second a TimeSeries.
SocketTypeOf(s) ==
    IF s.is_input
    THEN IF s.idx = 1 THEN ConcreteType("DataWrapper", NoDtype, NoShape)
         ELSE ConcreteType("TimeSeries", NoDtype, NoShape)
    ELSE IF InCount(s.node) = 0 THEN ConcreteType("TimeSeries", NoDtype, NoShape)
         ELSE ConcreteType("DataWrapper", NoDtype, NoShape)

\* connect_to without the type check
AcceptsAnything(target, source) == TRUE

Accepts(target, source) == TypeAccepts(SocketTypeOf(target), SocketTypeOf(source))

\* connect_to that leaves the target's existing connection in place
ConnectToKeepOld(cn, nf, self, other) ==
    IF self.is_input = other.is_input
    THEN [cn |-> cn, nf |-> nf, raised |-> "ValueError"]
    ELSE LET source == IF self.is_input THEN other ELSE self
             target == IF self.is_input THEN self ELSE other
         IN IF ~Accepts(target, source)
            THEN [cn |-> cn, nf |-> nf, raised |-> "TypeError"]
            ELSE LET cn1 == [cn EXCEPT ![source] = Append(@, target)]
                     cn2 == [cn1 EXCEPT ![target] = Append(@, source)]
                 IN [cn |-> cn2, nf |-> InvalidateOp(cn2, nf, target.node),
                     raised |-> "none"]

\* connect_to that records the edge before it checks the types
ConnectToCheckLate(cn, nf, self, other) ==
    IF self.is_input = other.is_input
    THEN [cn |-> cn, nf |-> nf, raised |-> "ValueError"]
    ELSE LET source == IF self.is_input THEN other ELSE self
             target == IF self.is_input THEN self ELSE other
             d == IF Len(cn[target]) > 0
                  THEN DisconnectAllOp(cn, nf, target)
                  ELSE [cn |-> cn, nf |-> nf]
             cn1 == [d.cn EXCEPT ![source] = Append(@, target)]
             cn2 == [cn1 EXCEPT ![target] = Append(@, source)]
         IN IF ~Accepts(target, source)
            THEN [cn |-> cn2, nf |-> d.nf, raised |-> "TypeError"]
            ELSE [cn |-> cn2, nf |-> InvalidateOp(cn2, d.nf, target.node),
                  raised |-> "none"]

\* connect_to: raised is the exception, if any
ConnectToOp(cn, nf, self, other) ==
    IF self.is_input = other.is_input
    THEN [cn |-> cn, nf |-> nf, raised |-> "ValueError"]
    ELSE LET source == IF self.is_input THEN other ELSE self
             target == IF self.is_input THEN self ELSE other
         IN IF ~Accepts(target, source)
            THEN [cn |-> cn, nf |-> nf, raised |-> "TypeError"]
            ELSE LET d == IF Len(cn[target]) > 0
                          THEN DisconnectAllOp(cn, nf, target)
                          ELSE [cn |-> cn, nf |-> nf]
                     cn1 == [d.cn EXCEPT ![source] = Append(@, target)]
                     cn2 == [cn1 EXCEPT ![target] = Append(@, source)]
                 IN [cn |-> cn2, nf |-> InvalidateOp(cn2, d.nf, target.node),
                     raised |-> "none"]

\* ------------------------------------------------------------------------
\* ProjectSerializer.save followed by load (core/io.py)
\* ------------------------------------------------------------------------
RECURSIVE SerializeConnections(_, _, _)
\* connections_data of _serialize_graph: per node, per connection of its
\* output socket, skipping keys already seen
SerializeConnections(cn, k, acc) ==
    IF k > Len(nodes) THEN acc
    ELSE LET out == OutSock(nodes[k])
             pairs == [j \in 1..Len(cn[out]) |-> <<out, cn[out][j]>>]
             fresh == SelectSeq(pairs, LAMBDA pr : ~Contains(acc, pr))
         IN SerializeConnections(cn, k + 1, acc \o fresh)

RECURSIVE BuildGraph(_, _, _)
\* the project.connect calls of _deserialize_graph
BuildGraph(cn, nf, todo) ==
    IF todo = << >> THEN [cn |-> cn, nf |-> nf]
    ELSE LET r == ConnectToOp(cn, nf, Head(todo)[1], Head(todo)[2])
         IN BuildGraph(r.cn, r.nf, Tail(todo))

\* what load finds under cache/<id>.bin
CacheFates == {"ok", "corrupt", "missing"}

\* save then load; fate says, for each node, what became of its cache entry
\* in the archive
SaveLoadOp(cn, nf, fate) ==
    LET saved == {n \in Nodes : Len(nf.cache[n]) > 0}
        nf0 == [dirty |-> [n \in Nodes |-> TRUE],
                state |-> nf.state,
                cache |-> [n \in Nodes |-> NoCache],
                error |-> [n \in Nodes |-> NoError]]
        g == BuildGraph([s \in Sockets |-> << >>], nf0,
                        SerializeConnections(cn, 1, << >>))
        restored == {n \in saved : fate[n] = "ok"}
        corrupt == {n \in saved : fate[n] = "corrupt"}
    IN [cn |-> g.cn,
        nf |-> [dirty |-> [n \in Nodes |-> IF n \in restored THEN FALSE ELSE g.nf.dirty[n]],
                state |-> [n \in Nodes |-> IF n \in restored THEN "valid"
                                           ELSE IF n \in corrupt THEN "dirty"
                                           ELSE g.nf.state[n]],
                cache |-> [n \in Nodes |-> IF n \in restored THEN nf.cache[n]
                                           ELSE g.nf.cache[n]],
                error |-> g.nf.error]]

\* ------------------------------------------------------------------------
\* Project operations as actions
\* ------------------------------------------------------------------------
SetFields(nf) ==
    /\ dirty' = nf.dirty
    /\ state' = nf.state
    /\ cache' = nf.cache
    /\ error' = nf.error

\* Project() followed by add_node for every node: Node.__init__
InitNodes ==
    /\ nodes = NodeList
    /\ settings = DefaultSettings
    /\ conns = [s \in Sockets |-> << >>]
    /\ dirty = [n \in Nodes |-> TRUE]
    /\ state = [n \in Nodes |-> "idle"]
    /\ cache = [n \in Nodes |-> NoCache]
    /\ error = [n \in Nodes |-> NoError]

Connect(src, tgt) ==
    LET r == ConnectToOp(conns, NodeFields, src, tgt)
    IN /\ conns' = r.cn
       /\ SetFields(r.nf)
       /\ param' = param
       /\ lastOp' = [op |-> "connect", node |-> tgt.node, res |-> r.raised]

Disconnect(self, other) ==
    LET r == DisconnectOp(conns, NodeFields, self, other)
    IN /\ conns' = r.cn
       /\ SetFields(r.nf)
       /\ param' = param
       /\ lastOp' = [op |-> "disconnect", node |-> self.node,
                     res |-> [removed |-> Contains(conns[self], other)]]

Invalidate(n) ==
    /\ SetFields(InvalidateOp(conns, NodeFields, n))
    /\ UNCHANGED <<conns, param>>
    /\ lastOp' = [op |-> "invalidate", node |-> n, res |-> [was_dirty |-> dirty[n]]]

\* set_parameter that starts the invalidation at every node of the project
SetParameterInvalidateAll(n, v) ==
    /\ param' = [param EXCEPT ![n] = v]
    /\ SetFields(InvalidateEach(conns, NodeFields, [k \in 1..NumNodes |-> OutSock(k)]))
    /\ UNCHANGED conns
    /\ lastOp' = [op |-> "set_parameter", node |-> n, res |-> "none"]

SetParameter(n, v) ==
    /\ param' = [param EXCEPT ![n] = v]
    /\ SetFields(InvalidateOp(conns, NodeFields, n))
    /\ UNCHANGED conns
    /\ lastOp' = [op |-> "set_parameter", node |-> n, res |-> "none"]

\* the archive is damaged in at most one cache entry
SaveLoad(fate) ==
    LET r == SaveLoadOp(conns, NodeFields, fate)
    IN /\ conns' = r.cn
       /\ SetFields(r.nf)
       /\ param' = param
       /\ lastOp' = [op |-> "load", node |-> 0, res |-> "none"]

Compute(n) ==
    LET r == ComputeOp(conns, param, NodeFields, n, {})
    IN /\ SetFields(r.nf)
       /\ UNCHANGED <<conns, param>>
       /\ lastOp' = [op |-> "compute", node |-> n,
                     res |-> [ok |-> r.ok, val |-> r.val, execd |-> r.execd],
                     unwound |-> r.unwound]

ApiIdle ==
    /\ lastOp = [op |-> "init", node |-> 0, res |-> "none"]
    /\ nops = 0

\* ExecutionEngine.__init__
EngIdle ==
    /\ max_workers = 0
    /\ dirty_only = FALSE
    /\ cancel = FALSE
    /\ running = FALSE
    /\ mpc = "idle"
    /\ branches = << >>
    /\ parallel = FALSE
    /\ next = 1
    /\ batch_start = 1
    /\ wst = << >>
    /\ widx = << >>
    /\ wstack = << >>
    /\ results = << >>
    /\ all_results = << >>

InvIdle ==
    /\ istack = << >>
    /\ visits = [n \in Nodes |-> 0]

\* ------------------------------------------------------------------------
\* CompositeNode and IteratorNode (core/composite.py): an iterator whose
\* body wraps a sub-project of one inner node, the inner node's socket "x"
\* exposed as the body's input and as its output
\* ------------------------------------------------------------------------
\* numbers are counted in hundredths
Hundredths == 100

\* an output value: a number, data that is not numeric, or None
Num(v) == [kind |-> "num", data |-> v]
Text == [kind |-> "text", data |-> 0]
NoneValue == [kind |-> "none", data |-> 0]

\* dictionaries from socket names to values
EmptyMap == [k \in {} |-> NoneValue]
MapOf(k, v) == [j \in {k} |-> v]
Get(m, k, default) == IF k \in DOMAIN m THEN m[k] ELSE default

\* the inner node's operation: the counter and the halving operation of
\* the iterator tests, one whose output is not numeric, one that raises
InnerOperations == {"counter", "halve", "label", "fail"}
StartValue == 100 * Hundredths

OperationExecute(operation, inputs) ==
    CASE operation = "counter" ->
            [raised |-> FALSE,
             val |-> MapOf("x", Num(Get(inputs, "x", Num(0)).data + Hundredths))]
      [] operation = "halve" ->
            [raised |-> FALSE,
             val |-> MapOf("x", Num(Get(inputs, "x", Num(StartValue)).data \div 2))]
      [] operation = "label" -> [raised |-> FALSE, val |-> MapOf("x", Text)]
      [] OTHER -> [raised |-> TRUE, val |-> EmptyMap]

FreshNode == [dirty |-> TRUE, state |-> "idle", cache |-> EmptyMap, error |-> NoError]

Modes == {"fixed_count", "converge"}
Tolerances == {0, 1, Hundredths}
IterCounts == 0..MaxIter

\* the iterator of test_convergence_mode: halving from 100.0, tolerance 0.01,
\* at most 1000 passes
TestMaxIterations == 1000
ConvergenceTest ==
    [max_iterations |-> TestMaxIterations, convergence_tolerance |-> 1,
     mode |-> "converge", operation |-> "halve"]

\* Node.compute of the inner node past the dirty check, r being what
\* execute() did
InnerExecuted(nd, r, cs1) ==
    IF r.raised
    THEN [raised |-> TRUE, val |-> EmptyMap, calls |-> cs1,
          inner |-> [nd EXCEPT !.state = "error", !.error = "OpError"]]
    ELSE [raised |-> FALSE, val |-> r.val, calls |-> cs1,
          inner |-> [nd EXCEPT !.dirty = FALSE, !.state = "valid", !.cache = r.val]]

\* Node.compute of the inner node: its input socket has no connection and
\* nothing sets _injected_inputs, so execute() is handed an empty dict
InnerCompute(nd, operation, cs) ==
    IF ~nd.dirty THEN [raised |-> FALSE, val |-> nd.cache, inner |-> nd, calls |-> cs]
    ELSE InnerExecuted(nd, OperationExecute(operation, EmptyMap), Append(cs, EmptyMap))

\* CompositeNode.set_inputs
SetInputs(nd, values) ==
    IF "x" \in DOMAIN values
    THEN [nd EXCEPT !.cache = MapOf("x", values["x"]) @@ @,
                    !.dirty = FALSE, !.state = "valid"]
    ELSE nd

\* CompositeNode.invalidate_all
InvalidateAll(nd) == [nd EXCEPT !.dirty = TRUE, !.cache = EmptyMap, !.state = "dirty"]

\* the loop over exposed_outputs
ExposedOutputs(result) ==
    IF "x" \in DOMAIN result THEN MapOf("x", result["x"]) ELSE EmptyMap

\* CompositeNode.compute past set_inputs, r being what the inner node's
\* compute() did
CompositeCollect(bd, r) ==
    IF r.raised
    THEN [raised |-> TRUE, val |-> EmptyMap, inner |-> r.inner, calls |-> r.calls,
          body |-> [bd EXCEPT !.state = "error", !.error = "OpError"]]
    ELSE [raised |-> FALSE, val |-> ExposedOutputs(r.val), inner |-> r.inner,
          calls |-> r.calls,
          body |-> [bd EXCEPT !.cache = ExposedOutputs(r.val), !.dirty = FALSE,
                              !.state = "valid"]]

\* CompositeNode.compute; external is what the nodes connected to the
\* body's input sockets return
CompositeCompute(bd, nd, operation, external, cs) ==
    IF ~bd.dirty
    THEN [raised |-> FALSE, val |-> bd.cache, body |-> bd, inner |-> nd, calls |-> cs]
    ELSE CompositeCollect(bd, InnerCompute(SetInputs(nd, external), operation, cs))

\* Node.compute of the sub-project node connected to the inner node's output,
\* past the dirty check; up is what inner.compute() did
DownstreamCompute(dn, up, operation) ==
    IF up.raised
    THEN [raised |-> TRUE, val |-> EmptyMap, inner |-> up.inner, calls |-> up.calls,
          down |-> [dn EXCEPT !.state = "error", !.error = "OpError"]]
    ELSE IF "x" \notin DOMAIN up.val
    THEN [raised |-> TRUE, val |-> EmptyMap, inner |-> up.inner, calls |-> up.calls,
          down |-> [dn EXCEPT !.state = "error", !.error = "KeyError"]]
    ELSE LET inputs == MapOf("x", up.val["x"])
             r == InnerExecuted(dn, OperationExecute(operation, inputs),
                                Append(up.calls, inputs))
         IN [raised |-> r.raised, val |-> r.val, inner |-> up.inner,
             calls |-> r.calls, down |-> r.inner]

\* CompositeNode.compute of CompositeNode(sub, [(inner, "x")], [(down, "x")]),
\* the inner node's output connected to the other node's input
ChainCompute(bd, nd, dn, operation, external, cs) ==
    IF ~bd.dirty
    THEN [raised |-> FALSE, val |-> bd.cache, body |-> bd, inner |-> nd,
          down |-> dn, calls |-> cs]
    ELSE LET nd1 == SetInputs(nd, external)
             r == IF ~dn.dirty
                  THEN [raised |-> FALSE, val |-> dn.cache, inner |-> nd1,
                        calls |-> cs, down |-> dn]
                  ELSE DownstreamCompute(dn, InnerCompute(nd1, operation, cs),
                                         operation)
         IN [down |-> r.down] @@ CompositeCollect(bd, r)


Abs(v) == IF v < 0 THEN -v ELSE v

\* IteratorNode._has_converged
HasConverged(prev, curr, tolerance) ==
    \A key \in DOMAIN curr :
       LET p_val == Get(prev, key, NoneValue)
           c_val == curr[key]
       IN /\ p_val.kind # "none" /\ c_val.kind # "none"
          /\ p_val.kind = "num" /\ c_val.kind = "num"
          /\ Abs(c_val.data - p_val.data) < tolerance

NoPrev == [set |-> FALSE, val |-> EmptyMap]

\* what the loop leaves: result is the last pass's, s holds the body's and
\* the inner node's fields, the inner operation's calls and the results of
\* the passes
LoopEnd(raised, result, s) ==
    [raised |-> raised, val |-> result, body |-> s.body, inner |-> s.inner,
     calls |-> s.calls, passes |-> s.passes]

AfterPass(r, s) ==
    [body |-> r.body, inner |-> r.inner, calls |-> r.calls,
     passes |-> IF r.raised THEN s.passes ELSE Append(s.passes, r.val)]

RECURSIVE IterLoop(_, _, _, _, _, _)
\* a pass that never tests for convergence
IterPassNoBreak(i, par, external, prev_output, s, r) ==
    IF r.raised THEN LoopEnd(TRUE, EmptyMap, AfterPass(r, s))
    ELSE IterLoop(i + 1, par, external, [set |-> TRUE, val |-> r.val], r.val,
                  AfterPass(r, s))

\* pass i of the loop from the return of body.compute() on, r being what
\* that call did
IterPass(i, par, external, prev_output, s, r) ==
    IF r.raised THEN LoopEnd(TRUE, EmptyMap, AfterPass(r, s))
    ELSE IF /\ par.mode = "converge"
            /\ prev_output.set
            /\ HasConverged(prev_output.val, r.val, par.convergence_tolerance)
         THEN LoopEnd(FALSE, r.val, AfterPass(r, s))
         ELSE IterLoop(i + 1, par, external, [set |-> TRUE, val |-> r.val], r.val,
                       AfterPass(r, s))

\* the for loop of IteratorNode.compute from pass i on
IterLoop(i, par, external, prev_output, result, s) ==
    IF i > par.max_iterations THEN LoopEnd(FALSE, result, s)
    ELSE IterPass(i, par, external, prev_output, s,
                  CompositeCompute(s.body,
                                   InvalidateAll(SetInputs(s.inner,
                                       IF prev_output.set THEN prev_output.val
                                       ELSE external)),
                                   par.operation, external, s.calls))

\* IteratorNode.compute past the loop, r being what the loop left
IteratorDone(itn, r) ==
    [raised |-> r.raised, body |-> r.body, inner |-> r.inner,
     calls |-> r.calls, passes |-> r.passes,
     it |-> IF r.raised
            THEN [itn EXCEPT !.state = "error", !.error = "OpError"]
            ELSE [itn EXCEPT !.cache = r.val, !.dirty = FALSE, !.state = "valid"]]

\* IteratorNode.compute
IteratorComputeOp(itn, par, bd, nd, external) ==
    IF ~itn.dirty
    THEN [raised |-> FALSE, it |-> itn, body |-> bd, inner |-> nd,
          calls |-> << >>, passes |-> << >>]
    ELSE IteratorDone(itn, IterLoop(1, par, external, NoPrev, EmptyMap,
                                    [body |-> bd, inner |-> nd,
                                     calls |-> << >>, passes |-> << >>]))

\* Node.invalidate of a node with nothing connected to its outputs
InvalidateAlone(nd) ==
    IF nd.dirty THEN nd
    ELSE [nd EXCEPT !.dirty = TRUE, !.cache = EmptyMap, !.error = NoError,
                    !.state = "dirty"]

\* no iterator in the program
IterIdle ==
    /\ it = FreshNode
    /\ body = FreshNode
    /\ inner = FreshNode
    /\ down = FreshNode
    /\ itpar = [max_iterations |-> 0, convergence_tolerance |-> 0,
                mode |-> "fixed_count", operation |-> "counter"]
    /\ ext = EmptyMap
    /\ calls = << >>
    /\ passes = << >>
    /\ converged = "none"
    /\ itops = 0


\* ------------------------------------------------------------------------
\* ExecutionPlanner (core/engine.py)
\* ------------------------------------------------------------------------
\* the nodes the planner works on, in project order
PlannedNodes(dr, d_only) ==
    IF d_only THEN SelectSeq(nodes, LAMBDA n : dr[n]) ELSE nodes

SeqRange(s) == {s[k] : k \in 1..Len(s)}

\* adjacency[node.id]: the planned children, one entry per connection
Adjacency(cn, n, ids) ==
    LET kids == [k \in 1..Len(cn[OutSock(n)]) |-> cn[OutSock(n)][k].node]
    IN SelectSeq(kids, LAMBDA c : c \in ids)

Occurrences(s, x) == Cardinality({k \in 1..Len(s) : s[k] = x})

RECURSIVE SumOver(_, _)
SumOver(f, S) ==
    IF S = {} THEN 0
    ELSE LET x == CHOOSE y \in S : TRUE IN f[x] + SumOver(f, S \ {x})

InDegree(cn, ids) ==
    [c \in ids |-> SumOver([n \in ids |-> Occurrences(Adjacency(cn, n, ids), c)], ids)]

RECURSIVE Relax(_, _, _)
\* the loop over adjacency[nid]
Relax(queue, deg, kids) ==
    IF kids = << >> THEN [queue |-> queue, deg |-> deg]
    ELSE LET c == Head(kids)
             deg1 == [deg EXCEPT ![c] = @ - 1]
         IN Relax(IF deg1[c] = 0 THEN Append(queue, c) ELSE queue, deg1, Tail(kids))

RECURSIVE Kahn(_, _, _, _, _)
Kahn(cn, ids, queue, deg, result) ==
    IF queue = << >> THEN result
    ELSE LET nid == Head(queue)
             r == Relax(Tail(queue), deg, Adjacency(cn, nid, ids))
         IN Kahn(cn, ids, r.queue, r.deg, Append(result, nid))

\* the planned nodes in project order, with no sorting and no cycle check
TopologicalSortProjectOrder(cn, dr, d_only) ==
    [raised |-> FALSE, order |-> PlannedNodes(dr, d_only)]


\* Kahn's loop without the length test of lines 79-82
TopologicalSortNoCheck(cn, dr, d_only) ==
    LET planned == PlannedNodes(dr, d_only)
        ids == SeqRange(planned)
        deg == InDegree(cn, ids)
        queue == SelectSeq(planned, LAMBDA n : deg[n] = 0)
    IN [raised |-> FALSE, order |-> Kahn(cn, ids, queue, deg, << >>)]


\* topological_sort: raised when a cycle keeps some node from being emitted
TopologicalSort(cn, dr, d_only) ==
    LET planned == PlannedNodes(dr, d_only)
        ids == SeqRange(planned)
        deg == InDegree(cn, ids)
        queue == SelectSeq(planned, LAMBDA n : deg[n] = 0)
        result == Kahn(cn, ids, queue, deg, << >>)
    IN [raised |-> Len(result) # Len(planned), order |-> result]

RECURSIVE AncestorSets(_, _, _, _)
\* ancestor_sets after the first loop of identify_branches
AncestorSets(cn, sorted_nodes, k, acc) ==
    IF k > Len(sorted_nodes) THEN acc
    ELSE LET n == sorted_nodes[k]
             ps == {cn[InSock(n, i)][j].node :
                      <<i, j>> \in {ij \in (1..InCount(n)) \X (1..NumNodes) :
                                      ij[2] <= Len(cn[InSock(n, ij[1])])}}
             ancestors == {n} \cup UNION {acc[q] : q \in ps \cap DOMAIN acc}
         IN AncestorSets(cn, sorted_nodes, k + 1, (n :> ancestors) @@ acc)

\* index of the first branch whose ancestors overlap anc; 0 if none
FirstOverlap(branch_ancestors, anc) ==
    LET hits == {i \in 1..Len(branch_ancestors) : branch_ancestors[i] \cap anc # {}}
    IN IF hits = {} THEN 0 ELSE CHOOSE i \in hits : \A j \in hits : i <= j

RECURSIVE GroupNodes(_, _, _, _, _)
\* the second loop of identify_branches
GroupNodes(sorted_nodes, k, anc, brs, branch_ancestors) ==
    IF k > Len(sorted_nodes) THEN brs
    ELSE LET n == sorted_nodes[k]
             i == FirstOverlap(branch_ancestors, anc[n])
         IN IF i # 0
            THEN GroupNodes(sorted_nodes, k + 1, anc,
                            [brs EXCEPT ![i] = Append(@, n)],
                            [branch_ancestors EXCEPT ![i] = @ \cup anc[n]])
            ELSE GroupNodes(sorted_nodes, k + 1, anc,
                            Append(brs, <<n>>),
                            Append(branch_ancestors, anc[n]))

\* every sorted node in one branch
IdentifyBranchesTogether(cn, sorted_nodes) ==
    IF sorted_nodes = << >> THEN << >> ELSE <<sorted_nodes>>

\* every sorted node in a branch of its own
IdentifyBranchesApart(cn, sorted_nodes) ==
    [k \in 1..Len(sorted_nodes) |-> <<sorted_nodes[k]>>]


IdentifyBranches(cn, sorted_nodes) ==
    IF sorted_nodes = << >> THEN << >>
    ELSE GroupNodes(sorted_nodes, 1, AncestorSets(cn, sorted_nodes, 1, << >>),
                    << >>, << >>)

\* ------------------------------------------------------------------------
\* BranchTask (core/engine.py): one task per branch, stepping through its
\* nodes; compute() runs as a stack of frames so that tasks interleave
\* ------------------------------------------------------------------------
Tasks == 1..Len(branches)

\* a compute() frame: phase "enter" is before the dirty check, "gather" is
\* inside the input loop at socket i, "raise" has an exception to handle
Frame(n) == [node |-> n, phase |-> "enter", i |-> 1, acc |-> << >>, exc |-> "none"]

Top(stk) == stk[Len(stk)]
Pop(stk) == SubSeq(stk, 1, Len(stk) - 1)
SetTop(stk, f) == [stk EXCEPT ![Len(stk)] = f]

Success(n, val) == [success |-> TRUE, node_id |-> n, results |-> val, error |-> "none"]
Failure(n, msg) == [success |-> FALSE, node_id |-> n, results |-> NoCache, error |-> msg]

\* the caller's frame after its upstream compute() returned val
TakeValue(f, val) ==
    IF Len(val) = 0
    THEN [f EXCEPT !.phase = "raise", !.exc = "KeyError"]
    ELSE [f EXCEPT !.acc = @ @@ (f.i :> val[1]), !.i = @ + 1]

\* Begin without the cancellation check
BeginNoCancel(w) ==
    /\ wst[w] = "loop"
    /\ LET node == branches[w][widx[w]]
       IN /\ state' = [state EXCEPT ![node] = "computing"]
          /\ wstack' = [wstack EXCEPT ![w] = <<Frame(node)>>]
          /\ wst' = [wst EXCEPT ![w] = "compute"]
          /\ UNCHANGED <<results, error>>
    /\ UNCHANGED <<conns, dirty, cache, param, widx>>

\* lines 143-157: the cancellation check and the COMPUTING mark
Begin(w) ==
    /\ wst[w] = "loop"
    /\ LET node == branches[w][widx[w]]
       IN IF cancel
          THEN /\ results' = [results EXCEPT ![w] = Append(@, Failure(node, "Cancelled"))]
               /\ state' = [state EXCEPT ![node] = "error"]
               /\ error' = [error EXCEPT ![node] = "Cancelled"]
               /\ wst' = [wst EXCEPT ![w] = "done"]
               /\ UNCHANGED wstack
          ELSE /\ state' = [state EXCEPT ![node] = "computing"]
               /\ wstack' = [wstack EXCEPT ![w] = <<Frame(node)>>]
               /\ wst' = [wst EXCEPT ![w] = "compute"]
               /\ UNCHANGED <<results, error>>
    /\ UNCHANGED <<conns, dirty, cache, param, widx>>

\* the task after the compute() frame on top of its stack returned val
Return(w, val) ==
    LET rest == Pop(wstack[w])
        node == Top(wstack[w]).node
    IN IF rest = << >>
       THEN /\ results' = [results EXCEPT ![w] = Append(@, Success(node, val))]
            /\ wstack' = [wstack EXCEPT ![w] = << >>]
            /\ IF widx[w] = Len(branches[w])
               THEN wst' = [wst EXCEPT ![w] = "done"] /\ UNCHANGED widx
               ELSE /\ wst' = [wst EXCEPT ![w] = "loop"]
                    /\ widx' = [widx EXCEPT ![w] = @ + 1]
       ELSE /\ wstack' = [wstack EXCEPT ![w] = SetTop(rest, TakeValue(Top(rest), val))]
            /\ UNCHANGED <<results, wst, widx>>

\* Node.compute lines 216-219
Enter(w) ==
    /\ wst[w] = "compute"
    /\ Top(wstack[w]).phase = "enter"
    /\ LET f == Top(wstack[w])
           n == f.node
       IN IF ~dirty[n]
          THEN Return(w, cache[n]) /\ UNCHANGED state
          ELSE /\ state' = [state EXCEPT ![n] = "computing"]
               /\ IF \E k \in 1..(Len(wstack[w]) - 1) : wstack[w][k].node = n
                  THEN \* pulled from inside its own compute()
                       wstack' = [wstack EXCEPT ![w] =
                                    SetTop(@, [f EXCEPT !.phase = "raise",
                                                        !.exc = "RecursionError"])]
                  ELSE wstack' = [wstack EXCEPT ![w] =
                                    SetTop(@, [f EXCEPT !.phase = "gather"])]
               /\ UNCHANGED <<results, wst, widx>>
    /\ UNCHANGED <<conns, dirty, cache, error, param>>

\* the next connected input socket of frame f, 0 if there is none
NextConnected(f) ==
    LET js == {j \in f.i..InCount(f.node) : conns[InSock(f.node, j)] # << >>}
    IN IF js = {} THEN 0 ELSE CHOOSE j \in js : \A k \in js : j <= k

\* Node.compute lines 227-235: pull the next connected input
Pull(w) ==
    /\ wst[w] = "compute"
    /\ Top(wstack[w]).phase = "gather"
    /\ NextConnected(Top(wstack[w])) # 0
    /\ LET f == Top(wstack[w])
           j == NextConnected(f)
           source_sock == conns[InSock(f.node, j)][1]
       IN wstack' = [wstack EXCEPT ![w] =
                       Append(SetTop(@, [f EXCEPT !.i = j]), Frame(source_sock.node))]
    /\ UNCHANGED <<nodeVars, results, wst, widx>>

\* Node.compute lines 245-258, and 260-263 when execute raises
Execute_(w) ==
    /\ wst[w] = "compute"
    /\ Top(wstack[w]).phase = "gather"
    /\ NextConnected(Top(wstack[w])) = 0
    /\ LET f == Top(wstack[w])
           n == f.node
       IN IF OpRaises(n, param[n])
          THEN /\ wstack' = [wstack EXCEPT ![w] =
                               SetTop(@, [f EXCEPT !.phase = "raise", !.exc = "OpError"])]
               /\ UNCHANGED <<dirty, state, cache, results, wst, widx>>
          ELSE /\ cache' = [cache EXCEPT ![n] = Execute(n, f.acc, param[n])]
               /\ dirty' = [dirty EXCEPT ![n] = FALSE]
               /\ state' = [state EXCEPT ![n] = "valid"]
               /\ Return(w, Execute(n, f.acc, param[n]))
    /\ UNCHANGED <<conns, error, param>>

\* Handle without the break of line 183: the loop goes on after a failure
HandleNoBreak(w) ==
    /\ wst[w] = "compute"
    /\ Top(wstack[w]).phase = "raise"
    /\ LET f == Top(wstack[w])
           n == f.node
           rest == Pop(wstack[w])
       IN /\ error' = [error EXCEPT ![n] = f.exc]
          /\ state' = [state EXCEPT ![n] = "error"]
          /\ IF rest = << >>
             THEN /\ results' = [results EXCEPT ![w] = Append(@, Failure(n, f.exc))]
                  /\ wstack' = [wstack EXCEPT ![w] = << >>]
                  /\ IF widx[w] = Len(branches[w])
                     THEN wst' = [wst EXCEPT ![w] = "done"] /\ UNCHANGED widx
                     ELSE /\ wst' = [wst EXCEPT ![w] = "loop"]
                          /\ widx' = [widx EXCEPT ![w] = @ + 1]
             ELSE /\ wstack' = [wstack EXCEPT ![w] =
                                  SetTop(rest, [Top(rest) EXCEPT !.phase = "raise",
                                                                 !.exc = f.exc])]
                  /\ UNCHANGED <<results, wst, widx>>
    /\ UNCHANGED <<conns, dirty, cache, param>>

\* Node.compute lines 260-263; at the bottom frame also BranchTask.run
\* lines 169-183
Handle(w) ==
    /\ wst[w] = "compute"
    /\ Top(wstack[w]).phase = "raise"
    /\ LET f == Top(wstack[w])
           n == f.node
           rest == Pop(wstack[w])
       IN /\ error' = [error EXCEPT ![n] = f.exc]
          /\ state' = [state EXCEPT ![n] = "error"]
          /\ IF rest = << >>
             THEN /\ results' = [results EXCEPT ![w] = Append(@, Failure(n, f.exc))]
                  /\ wstack' = [wstack EXCEPT ![w] = << >>]
                  /\ wst' = [wst EXCEPT ![w] = "done"]
             ELSE /\ wstack' = [wstack EXCEPT ![w] =
                                  SetTop(rest, [Top(rest) EXCEPT !.phase = "raise",
                                                                 !.exc = f.exc])]
                  /\ UNCHANGED <<results, wst>>
    /\ UNCHANGED <<conns, dirty, cache, param, widx>>

TaskStep(w) == Begin(w) \/ Enter(w) \/ Pull(w) \/ Execute_(w) \/ Handle(w)

\* ------------------------------------------------------------------------
\* ExecutionEngine.run and cancel (core/engine.py)
\* ------------------------------------------------------------------------
\* a batch one thread larger than max_workers
BatchSizeOffByOne == IF max_workers = 0 THEN Len(branches) ELSE max_workers + 1

\* line 246
BatchSize == IF max_workers = 0 THEN Len(branches) ELSE max_workers
BatchEnd == IF batch_start + BatchSize - 1 < Len(branches)
            THEN batch_start + BatchSize - 1 ELSE Len(branches)

RECURSIVE Concat(_)
Concat(ss) == IF ss = << >> THEN << >> ELSE Head(ss) \o Concat(Tail(ss))

\* lines 215-240: plan, partition, create the tasks
RunStart ==
    /\ mpc = "idle"
    /\ cancel' = FALSE
    /\ LET ts == TopologicalSort(conns, dirty, dirty_only)
           brs == IdentifyBranches(conns, ts.order)
       IN IF ts.raised
          THEN /\ mpc' = "raised"
               /\ running' = FALSE
               /\ UNCHANGED <<branches, parallel, wst, widx, wstack, results>>
          ELSE /\ branches' = brs
               /\ wst' = [w \in 1..Len(brs) |-> "new"]
               /\ widx' = [w \in 1..Len(brs) |-> 1]
               /\ wstack' = [w \in 1..Len(brs) |-> << >>]
               /\ results' = [w \in 1..Len(brs) |-> << >>]
               /\ parallel' = ~(Len(brs) = 1 \/ max_workers = 1)
               /\ IF brs = << >>
                  THEN mpc' = "returned" /\ running' = FALSE
                  ELSE mpc' = "dispatch" /\ running' = TRUE
    /\ UNCHANGED <<nodeVars, max_workers, dirty_only, next, batch_start, all_results>>

\* t.start() of line 250; on the inline path the call task.run() of line 231,
\* which starts once the previous branch has returned
StartTask ==
    /\ mpc = "dispatch"
    /\ next <= (IF parallel THEN BatchEnd ELSE Len(branches))
    /\ IF parallel \/ next = 1 THEN TRUE ELSE wst[next - 1] = "done"
    /\ wst' = [wst EXCEPT ![next] = "loop"]
    /\ next' = next + 1
    /\ UNCHANGED <<nodeVars, max_workers, dirty_only, cancel, running, mpc, branches,
                   parallel, batch_start, widx, wstack, results, all_results>>

\* the t.join() loop of lines 251-252: returns when the whole batch is done
JoinBatch ==
    /\ mpc = "dispatch"
    /\ parallel
    /\ next > BatchEnd
    /\ \A w \in batch_start..BatchEnd : wst[w] = "done"
    /\ IF BatchEnd = Len(branches)
       THEN mpc' = "collect" /\ UNCHANGED batch_start
       ELSE mpc' = "dispatch" /\ batch_start' = batch_start + BatchSize
    /\ UNCHANGED <<nodeVars, max_workers, dirty_only, cancel, running, branches,
                   parallel, next, wst, widx, wstack, results, all_results>>

InlineDone ==
    /\ mpc = "dispatch"
    /\ ~parallel
    /\ next > Len(branches)
    /\ wst[Len(branches)] = "done"
    /\ mpc' = "collect"
    /\ UNCHANGED <<nodeVars, max_workers, dirty_only, cancel, running, branches,
                   parallel, next, batch_start, wst, widx, wstack, results, all_results>>

\* run()'s collection loop taking the buckets last to first
RunReturnReversed ==
    /\ mpc = "collect"
    /\ all_results' = Concat([k \in 1..Len(results) |-> results[Len(results) + 1 - k]])
    /\ running' = FALSE
    /\ mpc' = "returned"
    /\ UNCHANGED <<nodeVars, max_workers, dirty_only, cancel, branches, parallel,
                   next, batch_start, wst, widx, wstack, results>>

\* lines 254-260
RunReturn ==
    /\ mpc = "collect"
    /\ all_results' = Concat(results)
    /\ running' = FALSE
    /\ mpc' = "returned"
    /\ UNCHANGED <<nodeVars, max_workers, dirty_only, cancel, branches, parallel,
                   next, batch_start, wst, widx, wstack, results>>

\* cancel(), called from another thread while run() is in progress
Cancel ==
    /\ running
    /\ ~cancel
    /\ cancel' = TRUE
    /\ UNCHANGED <<nodeVars, max_workers, dirty_only, running, mpc, branches, parallel,
                   next, batch_start, wst, widx, wstack, results, all_results>>

RunTask ==
    \E w \in Tasks :
        /\ TaskStep(w)
        /\ UNCHANGED <<max_workers, dirty_only, cancel, running, mpc, branches,
                       parallel, next, batch_start, all_results>>

\* The project the engine runs on: built by connecting each input socket to
\* at most one output, with one operation possibly set up to fail, and
\* possibly one node computed beforehand.
RECURSIVE SetToSeq(_)
SetToSeq(S) ==
    IF S = {} THEN << >>
    ELSE LET x == CHOOSE y \in S : \A z \in S :
                     \/ y.node < z.node
                     \/ y.node = z.node /\ y.idx <= z.idx
         IN <<x>> \o SetToSeq(S \ {x})

FreshFields ==
    [dirty |-> [n \in Nodes |-> TRUE],
     state |-> [n \in Nodes |-> "idle"],
     cache |-> [n \in Nodes |-> NoCache],
     error |-> [n \in Nodes |-> NoError]]

EngInit ==
    /\ nodes = NodeList
    /\ settings = DefaultSettings
    /\ \E src \in [InSockets -> Nodes \cup {0}] :
       \E fail \in Nodes \cup {0} :
       \E pre \in Nodes \cup {0} :
          LET wired == SelectSeq(SetToSeq(InSockets), LAMBDA s : src[s] # 0)
              todo == [k \in 1..Len(wired) |-> <<OutSock(src[wired[k]]), wired[k]>>]
              g == BuildGraph([s \in Sockets |-> << >>], FreshFields, todo)
              pm == [n \in Nodes |-> IF n = fail THEN FailParam ELSE DefaultParam]
              nf == IF pre = 0 THEN g.nf ELSE ComputeOp(g.cn, pm, g.nf, pre, {}).nf
          IN /\ conns = g.cn
             /\ param = pm
             /\ dirty = nf.dirty
             /\ state = nf.state
             /\ cache = nf.cache
             /\ error = nf.error
    /\ ApiIdle
    /\ InvIdle
    /\ IterIdle
    /\ max_workers \in 0..MaxWorkers
    /\ dirty_only \in BOOLEAN
    /\ cancel = FALSE
    /\ running = FALSE
    /\ mpc = "idle"
    /\ branches = << >>
    /\ parallel = FALSE
    /\ next = 1
    /\ batch_start = 1
    /\ wst = << >>
    /\ widx = << >>
    /\ wstack = << >>
    /\ results = << >>
    /\ all_results = << >>

EngNext ==
    \/ RunStart /\ UNCHANGED <<projVars, apiVars, invVars, iterVars>>
    \/ StartTask /\ UNCHANGED <<projVars, apiVars, invVars, iterVars>>
    \/ RunTask /\ UNCHANGED <<projVars, apiVars, invVars, iterVars>>
    \/ JoinBatch /\ UNCHANGED <<projVars, apiVars, invVars, iterVars>>
    \/ InlineDone /\ UNCHANGED <<projVars, apiVars, invVars, iterVars>>
    \/ RunReturn /\ UNCHANGED <<projVars, apiVars, invVars, iterVars>>
    \/ Cancel /\ UNCHANGED <<projVars, apiVars, invVars, iterVars>>

SpecEngine == EngInit /\ [][EngNext]_vars

\* ------------------------------------------------------------------------
\* Properties of the execution engine (checked under SpecEngine)
\* ------------------------------------------------------------------------
\* the nodes handed to identify_branches
PlannedSet == SeqRange(Concat(branches))

\* direct upstream nodes of n, by the input sockets' connections
ParentsOf(n) ==
    {p \in Nodes : \E i \in 1..InCount(n) : Contains(conns[InSock(n, i)], OutSock(p))}

RECURSIVE AncestorsWithin(_, _)
\* S with all its transitive ancestors that lie in U
AncestorsWithin(S, U) ==
    LET S1 == S \cup {p \in U : \E n \in S : p \in ParentsOf(n)}
    IN IF S1 = S THEN S ELSE AncestorsWithin(S1, U)

BranchAncestors(b) == AncestorsWithin(SeqRange(branches[b]), PlannedSet)

Running(w) == wst[w] \in {"loop", "compute"}

\* the nodes task w is computing: the node of its loop, marked COMPUTING by
\* the task, and every node whose compute() it has open past the dirty check
ActiveNodes(w) ==
    {wstack[w][k].node : k \in {j \in 1..Len(wstack[w]) :
                                   j = 1 \/ wstack[w][j].phase # "enter"}}

Last(s) == s[Len(s)]

\* C2: any two distinct branches returned by identify_branches have no
\* ancestor-or-self node in common.
C2_BranchesAncestorDisjoint ==
    \A b1 \in Tasks : \A b2 \in Tasks :
        b1 # b2 => BranchAncestors(b1) \cap BranchAncestors(b2) = {}

\* C1: two branch workers running at the same time are never computing the
\* same node, upstream pulls included.
C1_NoSharedNode ==
    \A w1 \in Tasks : \A w2 \in Tasks :
        (parallel /\ w1 # w2 /\ Running(w1) /\ Running(w2))
            => ActiveNodes(w1) \cap ActiveNodes(w2) = {}

\* C3: when run() has returned without cancellation, every branch none of
\* whose own operations raises has a success result for each of its nodes,
\* whatever failed in the other branches.
C3_FailureIsolated ==
    (mpc = "returned" /\ ~cancel) =>
        \A b \in Tasks :
            (\A n \in SeqRange(branches[b]) : ~OpRaises(n, param[n]))
                => /\ Len(results[b]) = Len(branches[b])
                   /\ \A k \in 1..Len(results[b]) : results[b][k].success

\* the connections among the planned nodes contain a directed cycle
PlannedCycle(S) ==
    \E n \in S : \E p \in S : p \in ParentsOf(n) /\ n \in AncestorsWithin({p}, S)

\* C4: run() raises only for a cycle among the planned nodes, never after a
\* task has run or cancel() was called; when it returns, the list is the
\* branches' results in order, and each branch's results are one entry per
\* attempted node: successes, then possibly one failure or cancellation at
\* which the branch stopped.
C4_ResultList ==
    /\ mpc = "raised" =>
          /\ PlannedCycle(SeqRange(PlannedNodes(dirty, dirty_only)))
          /\ ~cancel /\ branches = << >>
    /\ mpc = "returned" =>
          /\ all_results = Concat(results)
          /\ \A b \in Tasks :
                LET r == results[b]
                    br == branches[b]
                IN /\ Len(r) = widx[b]
                   /\ \A k \in 1..Len(r) : r[k].node_id = br[k]
                   /\ \A k \in 1..(Len(r) - 1) : r[k].success
                   /\ Len(r) < Len(br) => ~Last(r).success

C4_Witness ==
    /\ mpc = "returned"
    /\ \E b1 \in Tasks : \E b2 \in Tasks :
          /\ Last(results[b1]).error = "Cancelled"
          /\ Last(results[b2]).error = "OpError"
          /\ Len(results[b2]) < Len(branches[b2])
    /\ Len(all_results) < Cardinality(PlannedSet)

\* C5: with the cancellation flag set, a task at the head of its loop
\* records Cancelled for that node and stops; a task inside compute()
\* finishes that node with a result other than Cancelled; a Cancelled
\* entry is always the last one of a stopped task, and a stopped task
\* records nothing more.
C5_Cancellation ==
    [][\A w \in Tasks :
          /\ (cancel /\ wst[w] = "loop" /\ wst'[w] # "loop") =>
                /\ results'[w] = Append(results[w],
                                        Failure(branches[w][widx[w]], "Cancelled"))
                /\ wst'[w] = "done"
                /\ dirty' = dirty /\ cache' = cache
          /\ (cancel /\ wst[w] = "compute" /\ results'[w] # results[w]) =>
                /\ Len(results'[w]) = Len(results[w]) + 1
                /\ Last(results'[w]).node_id = branches[w][widx[w]]
                /\ Last(results'[w]).error # "Cancelled"
          /\ wst[w] = "done" => (wst'[w] = "done" /\ results'[w] = results[w])
          /\ \A k \in 1..Len(results'[w]) :
                results'[w][k].error = "Cancelled" =>
                    (k = Len(results'[w]) /\ wst'[w] = "done")
      ]_vars

C5_Witness ==
    /\ cancel
    /\ \E w \in Tasks :
          /\ Len(results[w]) >= 2
          /\ Last(results[w]).error = "Cancelled"
          /\ results[w][1].success
          /\ Len(results[w]) < Len(branches[w])

\* C6: on the threaded path with max_workers = k >= 2, at most k tasks are
\* running, and a task of a later batch has not been started while a task
\* of an earlier batch is unfinished.
C6_BatchLimit ==
    (parallel /\ max_workers >= 2) =>
        /\ Cardinality({w \in Tasks : Running(w)}) <= max_workers
        /\ \A w1 \in Tasks : \A w2 \in Tasks :
              ((w1 - 1) \div max_workers < (w2 - 1) \div max_workers /\ wst[w2] # "new")
                  => wst[w1] = "done"

C6_Witness ==
    /\ parallel
    /\ max_workers = 2
    /\ Len(branches) >= 3
    /\ Running(3)
    /\ Len(results[1]) > 0 /\ Len(results[2]) > 0

\* ------------------------------------------------------------------------
\* Node.invalidate, one frame step at a time (core/project.py 192-208)
\* ------------------------------------------------------------------------
IFrame(n) == [node |-> n, phase |-> "enter", pos |-> 1]

\* a call of invalidate(n) by the caller of the API
InvCall(n) ==
    /\ istack = << >>
    /\ istack' = <<IFrame(n)>>
    /\ visits' = [m \in Nodes |-> 0]
    /\ UNCHANGED <<nodeVars, apiVars, engVars, projVars, iterVars>>

\* InvStep that goes into the fan-out loop whether or not the node is dirty
InvStepNoGuard ==
    /\ istack # << >>
    /\ LET f == Top(istack)
           n == f.node
           targets == conns[OutSock(n)]
       IN IF f.phase = "enter"
          THEN /\ dirty' = [dirty EXCEPT ![n] = TRUE]
               /\ cache' = [cache EXCEPT ![n] = NoCache]
               /\ error' = [error EXCEPT ![n] = NoError]
               /\ state' = [state EXCEPT ![n] = "dirty"]
               /\ visits' = [visits EXCEPT ![n] = @ + 1]
               /\ istack' = SetTop(istack, [f EXCEPT !.phase = "loop"])
          ELSE /\ IF f.pos > Len(targets)
                  THEN istack' = Pop(istack)
                  ELSE istack' = Append(SetTop(istack, [f EXCEPT !.pos = @ + 1]),
                                        IFrame(targets[f.pos].node))
               /\ UNCHANGED <<dirty, cache, error, state, visits>>
    /\ UNCHANGED <<conns, param, apiVars, engVars, projVars, iterVars>>

\* the next step of the innermost open invalidate() frame
InvStep ==
    /\ istack # << >>
    /\ LET f == Top(istack)
           n == f.node
           targets == conns[OutSock(n)]
       IN IF f.phase = "enter"
          THEN IF dirty[n]
               THEN /\ istack' = Pop(istack)
                    /\ UNCHANGED <<dirty, cache, error, state, visits>>
               ELSE /\ dirty' = [dirty EXCEPT ![n] = TRUE]
                    /\ cache' = [cache EXCEPT ![n] = NoCache]
                    /\ error' = [error EXCEPT ![n] = NoError]
                    /\ state' = [state EXCEPT ![n] = "dirty"]
                    /\ visits' = [visits EXCEPT ![n] = @ + 1]
                    /\ istack' = SetTop(istack, [f EXCEPT !.phase = "loop"])
          ELSE /\ IF f.pos > Len(targets)
                  THEN istack' = Pop(istack)
                  ELSE istack' = Append(SetTop(istack, [f EXCEPT !.pos = @ + 1]),
                                        IFrame(targets[f.pos].node))
               /\ UNCHANGED <<dirty, cache, error, state, visits>>
    /\ UNCHANGED <<conns, param, apiVars, engVars, projVars, iterVars>>

\* Any wiring of the input sockets, with the caches of any set of nodes
\* restored as by ProjectSerializer.load.
InvInit ==
    /\ nodes = NodeList
    /\ settings = DefaultSettings
    /\ \E src \in [InSockets -> Nodes \cup {0}] :
       \E clean \in SUBSET Nodes :
          LET wired == SelectSeq(SetToSeq(InSockets), LAMBDA s : src[s] # 0)
              todo == [k \in 1..Len(wired) |-> <<OutSock(src[wired[k]]), wired[k]>>]
              g == BuildGraph([s \in Sockets |-> << >>], FreshFields, todo)
          IN /\ conns = g.cn
             /\ dirty = [n \in Nodes |-> n \notin clean]
             /\ state = [n \in Nodes |-> IF n \in clean THEN "valid" ELSE "dirty"]
             /\ cache = [n \in Nodes |-> IF n \in clean
                                         THEN Execute(n, << >>, DefaultParam)
                                         ELSE NoCache]
             /\ error = [n \in Nodes |-> NoError]
    /\ param = [n \in Nodes |-> DefaultParam]
    /\ ApiIdle
    /\ EngIdle
    /\ InvIdle
    /\ IterIdle

InvNext ==
    \/ \E n \in Nodes : InvCall(n)
    \/ InvStep

\* a call on the stack keeps running until it returns
SpecInv == InvInit /\ [][InvNext]_vars /\ WF_vars(InvStep)

\* n lies on a directed cycle of connections
OnCycle(n) == n \in AncestorsWithin(ParentsOf(n), Nodes)

\* C9: every invalidate() call returns, and within one call the fan-out loop
\* of a node is entered at most once.
C9_InvalidateTerminates ==
    /\ (istack # << >>) ~> (istack = << >>)
    /\ [](\A n \in Nodes : visits[n] <= 1)

C9_Witness ==
    /\ istack = << >>
    /\ \E n \in Nodes : visits[n] = 1 /\ OnCycle(n) /\ Len(conns[OutSock(n)]) >= 2
    /\ Cardinality({n \in Nodes : visits[n] = 1}) >= 2

\* ------------------------------------------------------------------------
\* Properties of the project API (checked under Spec)
\* ------------------------------------------------------------------------
RECURSIVE Downstream(_)
\* S with every node reachable from it through output connections
Downstream(S) ==
    LET S1 == S \cup {m \in Nodes : \E n \in S : n \in ParentsOf(m)}
    IN IF S1 = S THEN S ELSE Downstream(S1)

\* C7: after invalidate(n), n and every node downstream of n is dirty and
\* has an empty cache.
C7_InvalidateReachesDownstream ==
    lastOp.op = "invalidate" =>
        \A m \in Downstream({lastOp.node}) : dirty[m] /\ cache[m] = NoCache

\* C8: invalidate() on a dirty node changes no connection and no node's
\* dirty flag, state, cache or error message.
C8_InvalidateDirtyNoOp ==
    [][\A n \in Nodes :
          (lastOp'.op = "invalidate" /\ lastOp'.node = n /\ nops' = nops + 1 /\ dirty[n])
              => UNCHANGED <<conns, dirty, state, cache, error, param>>
      ]_vars

C8_Witness ==
    /\ lastOp.op = "invalidate"
    /\ lastOp.res.was_dirty
    /\ state[lastOp.node] = "error"
    /\ error[lastOp.node] = "OpError"
    /\ \E m \in Nodes : m # lastOp.node /\ lastOp.node \in ParentsOf(m)

\* C10: compute() on a clean node returns the cached map, executes no
\* operation and changes no node; a second compute() right after a
\* successful one returns the same map.
C10_ComputeCleanIdempotent ==
    [][\A n \in Nodes :
          (lastOp'.op = "compute" /\ lastOp'.node = n /\ nops' = nops + 1) =>
              /\ ~dirty[n] =>
                    /\ lastOp'.res = [ok |-> TRUE, val |-> cache[n], execd |-> << >>]
                    /\ UNCHANGED <<conns, dirty, state, cache, error, param>>
              /\ (lastOp.op = "compute" /\ lastOp.node = n /\ lastOp.res.ok) =>
                    (lastOp'.res.ok /\ lastOp'.res.val = lastOp.res.val)
      ]_vars

C10_Witness ==
    /\ lastOp.op = "compute"
    /\ lastOp.res.ok
    /\ lastOp.res.execd = << >>
    /\ lastOp.res.val = cache[lastOp.node]
    /\ Len(lastOp.res.val) > 0
    /\ ParentsOf(lastOp.node) # {}

\* C11: set_parameter on n changes no node other than n and the nodes
\* downstream of n, and the compute() that follows leaves every clean node
\* outside that set with its state, dirty flag and cache and does not
\* execute its operation.
C11_SetParameterLocal ==
    [][/\ (lastOp'.op = "set_parameter" /\ nops' = nops + 1) =>
             \A m \in Nodes \ Downstream({lastOp'.node}) :
                 /\ state'[m] = state[m]
                 /\ dirty'[m] = dirty[m]
                 /\ cache'[m] = cache[m]
                 /\ error'[m] = error[m]
       /\ (lastOp.op = "set_parameter" /\ lastOp'.op = "compute" /\ nops' = nops + 1) =>
             \A m \in Nodes \ Downstream({lastOp.node}) :
                 ~dirty[m] =>
                     /\ state'[m] = state[m]
                     /\ dirty'[m] = dirty[m]
                     /\ cache'[m] = cache[m]
                     /\ ~Contains(lastOp'.res.execd, m)
      ]_vars

\* a compute() that executed the operation of a node whose parameter was
\* set to another value, next to a clean node that is not downstream of it
C11_Witness ==
    /\ lastOp.op = "compute"
    /\ param[lastOp.node] # DefaultParam
    /\ Contains(lastOp.res.execd, lastOp.node)
    /\ \E m \in Nodes \ Downstream({lastOp.node}) :
          /\ ~dirty[m]
          /\ Len(cache[m]) > 0
          /\ ~Contains(lastOp.res.execd, m)
          /\ m \in ParentsOf(lastOp.node)

\* C12: after compute() on a dirty node succeeds, the node is VALID and not
\* dirty, its cache is the returned map and its error message is cleared.
C12_ComputeSuccessClean ==
    (lastOp.op = "compute" /\ lastOp.res.ok /\ Contains(lastOp.res.execd, lastOp.node)) =>
        /\ state[lastOp.node] = "valid"
        /\ ~dirty[lastOp.node]
        /\ cache[lastOp.node] = lastOp.res.val
        /\ error[lastOp.node] = NoError

\* C13: when an operation raises inside compute(n), compute(n) raises too;
\* the node u whose operation raised and every node on the chain of
\* compute() calls from u up to n end in ERROR with the message recorded and
\* stay dirty, and no operation of a node above u on that chain was executed.
C13_FailurePropagates ==
    (lastOp.op = "compute" /\ Len(lastOp.res.execd) > 0
        /\ OpRaises(Last(lastOp.res.execd), param[Last(lastOp.res.execd)])) =>
        LET u == Last(lastOp.res.execd)
            chain == lastOp.unwound
        IN /\ ~lastOp.res.ok
           /\ lastOp.res.val = "OpError"
           /\ chain # << >>
           /\ chain[1] = u
           /\ Last(chain) = lastOp.node
           /\ \A k \in 1..(Len(chain) - 1) : chain[k] \in ParentsOf(chain[k + 1])
           /\ \A k \in 1..Len(chain) :
                 /\ state[chain[k]] = "error"
                 /\ error[chain[k]] = "OpError"
                 /\ dirty[chain[k]]
                 /\ cache[chain[k]] = NoCache
                 /\ k > 1 => ~Contains(lastOp.res.execd, chain[k])

\* a failure two levels below the computed node
C13_Witness ==
    /\ lastOp.op = "compute"
    /\ lastOp.res.val = "OpError"
    /\ Len(lastOp.unwound) >= 3
    /\ lastOp.unwound[1] # lastOp.node

\* C14: after invalidate() returns the node's state is DIRTY, whatever its
\* state was before (IDLE, DIRTY, VALID, ERROR).
C14_InvalidateSetsDirty ==
    lastOp.op = "invalidate" => state[lastOp.node] = "dirty"

\* ------------------------------------------------------------------------
\* ExecutionEngine(max_workers=1).run as one call of the single-threaded
\* caller: the branches run one after the other on the calling thread and
\* nobody sets the cancel event
\* ------------------------------------------------------------------------
RECURSIVE RunBranchOp(_, _, _, _, _)
\* BranchTask.run from the k-th node of the branch on
RunBranchOp(cn, pm, nf, branch, k) ==
    IF k > Len(branch) THEN [nf |-> nf, results |-> << >>]
    ELSE LET node == branch[k]
             r == ComputeOp(cn, pm, [nf EXCEPT !.state[node] = "computing"], node, {})
         IN IF r.ok
            THEN LET rest == RunBranchOp(cn, pm, r.nf, branch, k + 1)
                 IN [rest EXCEPT !.results = <<Success(node, r.val)>> \o @]
            ELSE [nf |-> [r.nf EXCEPT !.state[node] = "error", !.error[node] = r.val],
                  results |-> <<Failure(node, r.val)>>]

RECURSIVE RunBranchesOp(_, _, _, _, _)
\* the loop of the single-branch fast path
RunBranchesOp(cn, pm, nf, brs, b) ==
    IF b > Len(brs) THEN [nf |-> nf, results |-> << >>]
    ELSE LET t == RunBranchOp(cn, pm, nf, brs[b], 1)
             rest == RunBranchesOp(cn, pm, t.nf, brs, b + 1)
         IN [rest EXCEPT !.results = t.results \o @]

RunInlineOp(cn, pm, nf, d_only) ==
    LET plan == TopologicalSort(cn, nf.dirty, d_only)
    IN IF plan.raised
       THEN [nf |-> nf, raised |-> TRUE, results |-> << >>]
       ELSE LET r == RunBranchesOp(cn, pm, nf, IdentifyBranches(cn, plan.order), 1)
            IN [nf |-> r.nf, raised |-> FALSE, results |-> r.results]

RunInline(d_only) ==
    LET r == RunInlineOp(conns, param, NodeFields, d_only)
    IN /\ SetFields(r.nf)
       /\ UNCHANGED <<conns, param>>
       /\ lastOp' = [op |-> "run", node |-> 0,
                     res |-> [raised |-> r.raised, results |-> r.results]]

\* one call of the caller in a session that edits the graph and runs the
\* engine in turn
RunStep ==
    \/ \E src \in OutSockets, tgt \in InSockets : Connect(src, tgt)
    \/ \E self \in InSockets : \E k \in 1..Len(conns[self]) : Disconnect(self, conns[self][k])
    \/ \E n \in Nodes : Invalidate(n)
    \/ \E n \in Nodes, v \in ParamValues : SetParameter(n, v)
    \/ \E n \in Nodes : Compute(n)
    \/ \E d_only \in BOOLEAN : RunInline(d_only)

RunNext ==
    /\ nops < MaxOps
    /\ nops' = nops + 1
    /\ RunStep
    /\ UNCHANGED <<projVars, engVars, invVars, iterVars>>

\* C15: a node in COMPUTING goes to VALID or ERROR next: no step of the
\* caller (invalidate, set_parameter, connect, disconnect, compute, engine
\* run) takes a node from COMPUTING to any other state.
C15_ComputingLeavesToValidOrError ==
    [][\A n \in Nodes :
          state[n] = "computing" => state'[n] \in {"computing", "valid", "error"}
      ]_vars

\* ------------------------------------------------------------------------
\* Graph editing: Project.connect, Project.remove_node and the socket
\* methods called directly
\* ------------------------------------------------------------------------
\* the None of get_input_socket / get_output_socket
NoSocket == [is_input |-> FALSE, node |-> 0, idx |-> 0]

\* the socket names the operations declare
OutputName == "out"
InputName(i) == IF i = 1 THEN "in1" ELSE "in2"
SocketNames == {"out", "in1", "in2"}

GetInputSocket(n, name) ==
    LET hits == {i \in 1..InCount(n) : InputName(i) = name}
    IN IF hits = {} THEN NoSocket ELSE InSock(n, CHOOSE i \in hits : TRUE)

GetOutputSocket(n, name) == IF name = OutputName THEN OutSock(n) ELSE NoSocket

ProjectConnectOp(cn, nf, source_node, source_socket_name, target_node, target_socket_name) ==
    LET source_sock == GetOutputSocket(source_node, source_socket_name)
        target_sock == GetInputSocket(target_node, target_socket_name)
    IN IF source_sock = NoSocket \/ target_sock = NoSocket
       THEN [cn |-> cn, nf |-> nf, raised |-> "KeyError"]
       ELSE ConnectToOp(cn, nf, source_sock, target_sock)

RECURSIVE DisconnectSockets(_, _, _)
\* disconnect_all on each socket of the list in turn
DisconnectSockets(cn, nf, socks) ==
    IF socks = << >> THEN [cn |-> cn, nf |-> nf]
    ELSE LET r == DisconnectAllOp(cn, nf, Head(socks))
         IN DisconnectSockets(r.cn, r.nf, Tail(socks))

\* remove_node that drops the node without disconnecting its sockets
RemoveNodeKeepEdges(cn, nf, ns, n) ==
    [cn |-> cn, nf |-> nf, nodes |-> Remove(ns, n)]

RemoveNodeOp(cn, nf, ns, n) ==
    IF ~Contains(ns, n) THEN [cn |-> cn, nf |-> nf, nodes |-> ns]
    ELSE LET r == DisconnectSockets(cn, nf,
                      [i \in 1..InCount(n) |-> InSock(n, i)] \o <<OutSock(n)>>)
         IN [cn |-> r.cn, nf |-> r.nf, nodes |-> Remove(ns, n)]

\* what the caller sees of a connect call: the exception, or the edge made
\* and what the target was connected to before
ConnectResult(r, source, target) ==
    IF r.raised # "none"
    THEN [op |-> "connect", node |-> 0, res |-> r.raised]
    ELSE [op |-> "connect", node |-> target.node, res |-> "none",
          source |-> source, target |-> target, replaced |-> conns[target]]

ProjectConnect(sn, sname, tn, tname) ==
    LET r == ProjectConnectOp(conns, NodeFields, sn, sname, tn, tname)
    IN /\ conns' = r.cn
       /\ SetFields(r.nf)
       /\ UNCHANGED <<nodes, param>>
       /\ lastOp' = ConnectResult(r, GetOutputSocket(sn, sname), GetInputSocket(tn, tname))

\* Socket.connect_to called on any socket with any other
ConnectTo(self, other) ==
    LET r == ConnectToOp(conns, NodeFields, self, other)
    IN /\ conns' = r.cn
       /\ SetFields(r.nf)
       /\ UNCHANGED <<nodes, param>>
       /\ lastOp' = ConnectResult(r, IF self.is_input THEN other ELSE self,
                                     IF self.is_input THEN self ELSE other)

DisconnectAll(self) ==
    LET r == DisconnectAllOp(conns, NodeFields, self)
    IN /\ conns' = r.cn
       /\ SetFields(r.nf)
       /\ UNCHANGED <<nodes, param>>
       /\ lastOp' = [op |-> "disconnect_all", node |-> self.node, res |-> "none"]

RemoveNode(n) ==
    LET r == RemoveNodeOp(conns, NodeFields, nodes, n)
    IN /\ conns' = r.cn
       /\ SetFields(r.nf)
       /\ nodes' = r.nodes
       /\ param' = param
       /\ lastOp' = [op |-> "remove_node", node |-> n,
                     res |-> [was_member |-> Contains(nodes, n),
                              out_edges |-> Len(conns[OutSock(n)]),
                              in_edges |-> Cardinality({i \in 1..InCount(n) :
                                                           conns[InSock(n, i)] # << >>})]]

\* one call of a caller that edits the graph
ConnStep ==
    \/ \E sn \in Nodes, tn \in Nodes, sname \in SocketNames, tname \in SocketNames :
          ProjectConnect(sn, sname, tn, tname)
    \/ \E self \in Sockets, other \in Sockets :
          ConnectTo(self, other)
    \/ \E self \in Sockets, other \in Sockets :
          self.is_input # other.is_input /\ Disconnect(self, other) /\ nodes' = nodes
    \/ \E self \in Sockets : DisconnectAll(self)
    \/ \E n \in Nodes : RemoveNode(n)
    \/ \E n \in Nodes : Compute(n) /\ nodes' = nodes

ConnNext ==
    /\ nops < MaxConnOps
    /\ nops' = nops + 1
    /\ ConnStep
    /\ UNCHANGED <<settings, engVars, invVars, iterVars>>

\* ------------------------------------------------------------------------
\* Properties of graph editing (checked under SpecConn)
\* ------------------------------------------------------------------------
\* the call raised exc and left every connection list and every node alone
RaisedUntouched(r, exc) ==
    /\ r.raised = exc
    /\ r.cn = conns
    /\ r.nf = NodeFields

\* C16: in every reachable state, connect_to on two sockets of the same
\* direction raises ValueError, connect_to on an output and an input whose
\* types do not match raises TypeError, and Project.connect with a socket
\* name the node does not have raises KeyError; each of them leaves every
\* connection list (the target's existing connection included) and every
\* node's dirty flag, state, cache and error as they were.
C16_FailedConnectChangesNothing ==
    /\ \A self \in Sockets, other \in Sockets :
          LET r == ConnectToOp(conns, NodeFields, self, other)
              source == IF self.is_input THEN other ELSE self
              target == IF self.is_input THEN self ELSE other
          IN IF self.is_input = other.is_input
             THEN RaisedUntouched(r, "ValueError")
             ELSE IF ~TypeAccepts(SocketTypeOf(target), SocketTypeOf(source))
             THEN RaisedUntouched(r, "TypeError")
             ELSE r.raised = "none"
    /\ \A sn \in Nodes, tn \in Nodes, sname \in SocketNames, tname \in SocketNames :
          (sname # OutputName \/ tname \notin {InputName(i) : i \in 1..InCount(tn)}) =>
              RaisedUntouched(ProjectConnectOp(conns, NodeFields, sn, sname, tn, tname),
                              "KeyError")
    /\ (lastOp.op = "connect" /\ lastOp.res # "none") =>
          lastOp.res \in {"ValueError", "TypeError", "KeyError"}

\* a connect that raised TypeError on an input that is connected and whose
\* node is clean
C16_Witness ==
    /\ lastOp.op = "connect"
    /\ lastOp.res = "TypeError"
    /\ \E t \in InSockets :
          /\ conns[t] # << >>
          /\ ~dirty[t.node]
          /\ Len(cache[t.node]) > 0
          /\ \E src \in OutSockets : ~TypeAccepts(SocketTypeOf(t), SocketTypeOf(src))

\* C17: every input socket holds at most one connection, and after a
\* connect the target holds exactly the new source, while the source it was
\* connected to before no longer lists it.
C17_InputHoldsOneConnection ==
    /\ \A t \in InSockets : Len(conns[t]) <= 1
    /\ (lastOp.op = "connect" /\ lastOp.res = "none") =>
          /\ conns[lastOp.target] = <<lastOp.source>>
          /\ Contains(conns[lastOp.source], lastOp.target)
          /\ \A k \in 1..Len(lastOp.replaced) :
                lastOp.replaced[k] # lastOp.source =>
                    ~Contains(conns[lastOp.replaced[k]], lastOp.target)

\* a connect that replaced the connection to another source
C17_Witness ==
    /\ lastOp.op = "connect"
    /\ lastOp.res = "none"
    /\ lastOp.replaced # << >>
    /\ lastOp.replaced[1] # lastOp.source

\* C18: the connection lists are symmetric (a lists b exactly when b lists
\* a), no list holds the same socket twice, and every connection joins an
\* output socket and an input socket.
C18_ConnectionsSymmetric ==
    \A a \in Sockets, b \in Sockets :
        /\ Contains(conns[a], b) <=> Contains(conns[b], a)
        /\ Occurrences(conns[a], b) <= 1
        /\ Contains(conns[a], b) => a.is_input # b.is_input

\* one of two connections of an output socket has been removed
C18_Witness ==
    /\ lastOp.op = "disconnect"
    /\ lastOp.res.removed
    /\ conns[OutSock(lastOp.node)] # << >>

\* n is not in project.nodes, its sockets have no connections and no other
\* socket lists one of them
Severed(n) ==
    /\ ~Contains(nodes, n)
    /\ \A s \in Sockets : s.node = n => conns[s] = << >>
    /\ \A s \in Sockets : \A k \in 1..Len(conns[s]) : conns[s][k].node # n

\* C19 as stated: after remove_node(n), n is not in project.nodes, its
\* sockets have no connections and no remaining socket lists one of them.
C19_RemoveNodeSevers ==
    lastOp.op = "remove_node" => Severed(lastOp.node)

\* C19, amended: the same after remove_node(n) of a node that was in
\* project.nodes when the call was made.
C19_RemoveMemberSevers ==
    (lastOp.op = "remove_node" /\ lastOp.res.was_member) => Severed(lastOp.node)

\* a member with connections on both sides has been removed
C19_Witness ==
    /\ lastOp.op = "remove_node"
    /\ lastOp.res.was_member
    /\ lastOp.res.in_edges >= 1
    /\ lastOp.res.out_edges >= 1

\* ------------------------------------------------------------------------
\* Invalidation by graph edits (checked under Spec)
\* ------------------------------------------------------------------------
\* the nodes the output socket of n is connected to, in the lists cn
ChildrenIn(cn, n) == {cn[OutSock(n)][k].node : k \in 1..Len(cn[OutSock(n)])}

RECURSIVE DownstreamIn(_, _)
\* S with every node reachable from it through the lists cn
DownstreamIn(cn, S) ==
    LET S1 == S \cup UNION {ChildrenIn(cn, n) : n \in S}
    IN IF S1 = S THEN S ELSE DownstreamIn(cn, S1)

RECURSIVE WaveFrom(_, _, _)
\* S with every node reachable from it through nodes that are clean in dr
WaveFrom(cn, dr, S) ==
    LET S1 == S \cup {m \in UNION {ChildrenIn(cn, n) : n \in S} : ~dr[m]}
    IN IF S1 = S THEN S ELSE WaveFrom(cn, dr, S1)

\* the nodes an invalidate() of t changes
Wave(cn, dr, t) == IF dr[t] THEN {} ELSE WaveFrom(cn, dr, {t})

\* a step that connected or disconnected an input socket of lastOp'.node
EdgeStep ==
    /\ nops' = nops + 1
    /\ \/ lastOp'.op = "connect" /\ lastOp'.res = "none"
       \/ lastOp'.op = "disconnect"

\* the nodes on the source side of the edge the step made or removed
SourceSide ==
    LET t == lastOp'.node
        changed == {i \in 1..InCount(t) : conns'[InSock(t, i)] # conns[InSock(t, i)]}
        lists == IF lastOp'.op = "connect" THEN conns' ELSE conns
    IN {lists[InSock(t, i)][k].node :
           <<i, k>> \in {ik \in changed \X (1..NumNodes) :
                           ik[2] <= Len(lists[InSock(t, ik[1])])}}

Plan == RunStart /\ UNCHANGED <<projVars, apiVars, invVars, iterVars>>

SpecPlan == EngInit /\ [][Plan]_vars

\* position of node n in the sequence s; 0 if absent
IndexOf(s, n) ==
    IF \E k \in 1..Len(s) : s[k] = n
    THEN CHOOSE k \in 1..Len(s) : s[k] = n /\ \A j \in 1..(k - 1) : s[j] # n
    ELSE 0

\* C21: when topological_sort returns, its list holds every planned node
\* exactly once (all project nodes, or exactly the dirty ones with
\* dirty_only), and for every connection a -> b between two planned nodes
\* a stands before b.
C21_TopologicalOrder ==
    \A d \in BOOLEAN :
       LET ts == TopologicalSort(conns, dirty, d)
           want == IF d THEN {n \in SeqRange(nodes) : dirty[n]} ELSE SeqRange(nodes)
       IN ~ts.raised =>
             /\ SeqRange(ts.order) = want
             /\ Len(ts.order) = Cardinality(want)
             /\ \A b \in want : \A a \in ParentsOf(b) \cap want :
                   IndexOf(ts.order, a) < IndexOf(ts.order, b)

\* a run was planned over all the nodes, wired into a chain with an edge
\* that runs against the project's order
C21_Witness ==
    /\ mpc = "dispatch"
    /\ Cardinality(PlannedSet) = NumNodes
    /\ \E b \in Nodes : \E a \in ParentsOf(b) :
          a > b /\ \E c \in ParentsOf(a) : c # b


\* C22: when the planned nodes hold a directed cycle (a self-loop counts),
\* run() raises out of topological_sort: no task is created, no node's
\* fields change, nothing is returned, and is_running is false afterwards.
C22_CycleRaises ==
    [][(mpc = "idle" /\ PlannedCycle(SeqRange(PlannedNodes(dirty, dirty_only)))) =>
          /\ mpc' = "raised"
          /\ ~running'
          /\ UNCHANGED <<nodeVars, branches, wst, results, all_results>>]_vars

\* run() has raised for a self-loop with dirty_only set, one node being
\* clean and so not planned
C22_Witness ==
    /\ mpc = "raised"
    /\ dirty_only
    /\ \E n \in Nodes : ~dirty[n]
    /\ \E n \in Nodes : dirty[n] /\ n \in ParentsOf(n)


\* ------------------------------------------------------------------------
\* The planner on a project of PlanSize nodes
\* ------------------------------------------------------------------------
PlanNodes == 1..PlanSize

PlanInSockets ==
    {s \in [is_input : {TRUE}, node : PlanNodes, idx : 1..2] : s.idx <= InCount(s.node)}

PlanSockets == PlanInSockets \cup {OutSock(n) : n \in PlanNodes}

Reverse(s) == [k \in 1..Len(s) |-> s[Len(s) + 1 - k]]

\* A project of PlanSize nodes: any wiring of the input sockets that
\* connect_to accepts, the output lists in either order of connecting,
\* either dirty_only and, where the planner reads the dirty flags, any set
\* of nodes clean as after ProjectSerializer.load.
BranchInit ==
    /\ nodes = [k \in 1..PlanSize |-> k]
    /\ settings = DefaultSettings
    /\ dirty_only \in BOOLEAN
    /\ \E src \in [PlanInSockets -> PlanNodes \cup {0}] :
       \E clean \in IF dirty_only THEN SUBSET PlanNodes ELSE {{}} :
       \E rev \in BOOLEAN :
          /\ \A s \in PlanInSockets : src[s] # 0 => Accepts(s, OutSock(src[s]))
          /\ conns = [s \in PlanSockets |->
                        IF s.is_input
                        THEN IF src[s] = 0 THEN << >> ELSE <<OutSock(src[s])>>
                        ELSE LET l == SetToSeq({t \in PlanInSockets : src[t] = s.node})
                             IN IF rev THEN Reverse(l) ELSE l]
          /\ dirty = [n \in PlanNodes |-> n \notin clean]
          /\ state = [n \in PlanNodes |-> IF n \in clean THEN "valid" ELSE "dirty"]
          /\ cache = [n \in PlanNodes |-> IF n \in clean
                                          THEN Execute(n, << >>, DefaultParam)
                                          ELSE NoCache]
          /\ error = [n \in PlanNodes |-> NoError]
    /\ param = [n \in PlanNodes |-> DefaultParam]
    /\ max_workers = 0
    /\ cancel = FALSE
    /\ running = FALSE
    /\ mpc = "idle"
    /\ branches = << >>
    /\ parallel = FALSE
    /\ next = 1
    /\ batch_start = 1
    /\ wst = << >>
    /\ widx = << >>
    /\ wstack = << >>
    /\ results = << >>
    /\ all_results = << >>
    /\ ApiIdle
    /\ InvIdle
    /\ IterIdle

SpecBranch == BranchInit /\ [][Plan]_vars

\* the nodes connected to the inputs of n
PlanParents(n) ==
    {conns[s][1].node : s \in {t \in PlanInSockets : t.node = n /\ conns[t] # << >>}}

RECURSIVE AncestorOrSelf(_)
\* S with all its transitive ancestors
AncestorOrSelf(S) ==
    LET S1 == S \cup UNION {PlanParents(n) : n \in S}
    IN IF S1 = S THEN S ELSE AncestorOrSelf(S1)

RECURSIVE Component(_)
\* S with every planned node joined to it by connections among planned nodes,
\* whatever their direction
Component(S) ==
    LET S1 == S \cup {m \in PlannedSet : \E n \in S : m \in PlanParents(n) \/ n \in PlanParents(m)}
    IN IF S1 = S THEN S ELSE Component(S1)

\* the branch that holds node n
BranchOf(n) == CHOOSE b \in Tasks : n \in SeqRange(branches[b])

\* C23: two planned nodes whose ancestor-or-self sets are disjoint are in
\* different branches.
C23_DisjointAncestorsApart ==
    \A x \in PlannedSet : \A y \in PlannedSet \ {x} :
       AncestorOrSelf({x}) \cap AncestorOrSelf({y}) = {} => BranchOf(x) # BranchOf(y)

\* C23, amended: two planned nodes that no path of connections among planned
\* nodes joins, in whatever direction, are in different branches.
C23_UnconnectedApart ==
    \A x \in PlannedSet : \A y \in PlannedSet \ {x} :
       y \notin Component({x}) => BranchOf(x) # BranchOf(y)

\* a plan of several branches, one of them holding a node with one of its
\* ancestors, another holding a node that nothing joins to these
C23_Witness ==
    /\ mpc = "dispatch"
    /\ Len(branches) >= 2
    /\ \E x \in PlannedSet : \E y \in PlannedSet \ {x} : \E z \in PlannedSet :
          /\ BranchOf(x) = BranchOf(y)
          /\ z \notin Component({x})
          /\ AncestorOrSelf({x}) \cap AncestorOrSelf({y}) # {}


RECURSIVE PlannedAncestors(_)
\* S with all its transitive ancestors among the planned nodes
PlannedAncestors(S) ==
    LET S1 == S \cup (PlannedSet \cap UNION {PlanParents(n) : n \in S})
    IN IF S1 = S THEN S ELSE PlannedAncestors(S1)

\* the planned nodes form one linear chain: one head, every other node fed
\* by exactly one planned node, no node feeding two, all of them joined
PlannedChain ==
    /\ PlannedSet # {}
    /\ Cardinality({n \in PlannedSet : PlanParents(n) \cap PlannedSet = {}}) = 1
    /\ \A n \in PlannedSet : Cardinality(PlanParents(n) \cap PlannedSet) <= 1
    /\ \A n \in PlannedSet :
          Cardinality({m \in PlannedSet : n \in PlanParents(m)}) <= 1
    /\ \A n \in PlannedSet : Component({n}) = PlannedSet

\* C24: when the planned nodes form a linear chain of N nodes,
\* identify_branches returns exactly one branch, of length N, whose k-th
\* node is the one with k - 1 planned ancestors.
C24_ChainOneBranch ==
    (mpc = "dispatch" /\ PlannedChain) =>
       /\ Len(branches) = 1
       /\ Len(branches[1]) = Cardinality(PlannedSet)
       /\ \A k \in 1..Len(branches[1]) :
             Cardinality(PlannedAncestors({branches[1][k]})) = k

\* a chain of three planned nodes whose dependency order is not the
\* project's order
C24_Witness ==
    /\ mpc = "dispatch"
    /\ PlannedChain
    /\ Cardinality(PlannedSet) >= 3
    /\ \E k \in 1..(Len(branches[1]) - 1) : branches[1][k] > branches[1][k + 1]


\* ------------------------------------------------------------------------
\* Specification of the calls made on one IteratorNode
\* ------------------------------------------------------------------------
\* IteratorNode(CompositeNode(sub, [(inner, "x")], [(inner, "x")]), max_iter,
\* tolerance, mode), its input socket connected to a computed source or not
IterInit ==
    /\ InitNodes
    /\ param = [n \in Nodes |-> DefaultParam]
    /\ ApiIdle
    /\ EngIdle
    /\ InvIdle
    /\ it = FreshNode
    /\ body = FreshNode
    /\ inner = FreshNode
    /\ down = FreshNode
    /\ \/ \E n \in IterCounts, tol \in Tolerances, m \in Modes, o \in InnerOperations :
             itpar = [max_iterations |-> n, convergence_tolerance |-> tol,
                      mode |-> m, operation |-> o]
       \/ itpar = ConvergenceTest
    /\ ext \in {EmptyMap, MapOf("x", Num(StartValue))}
    /\ calls = << >>
    /\ passes = << >>
    /\ converged = "none"
    /\ itops = 0

\* it.compute(); calls and passes keep what the last call that entered the
\* loop left
IteratorCompute ==
    LET r == IteratorComputeOp(it, itpar, body, inner, ext)
    IN /\ it' = r.it
       /\ body' = r.body
       /\ inner' = r.inner
       /\ calls' = IF it.dirty THEN r.calls ELSE calls
       /\ passes' = IF it.dirty THEN r.passes ELSE passes
       /\ UNCHANGED <<down, itpar, ext, converged>>

\* it.set_parameter(name, value): the iterator's output sockets are the
\* body's, with nothing connected
IteratorSetParameter(name, value) ==
    /\ itpar' = [itpar EXCEPT ![name] = value]
    /\ it' = InvalidateAlone(it)
    /\ UNCHANGED <<body, inner, down, ext, calls, passes, converged>>

\* a computed source is connected to the iterator's input socket: the
\* socket is the body's own, so connect_to invalidates the body
ConnectInput(v) ==
    /\ ext' = MapOf("x", v)
    /\ body' = InvalidateAlone(body)
    /\ UNCHANGED <<it, inner, down, itpar, calls, passes, converged>>

IterNext ==
    /\ itops < MaxIterOps
    /\ itops' = itops + 1
    /\ \/ IteratorCompute
       \/ \E n \in IterCounts : IteratorSetParameter("max_iterations", n)
       \/ \E tol \in Tolerances :
             /\ itpar.max_iterations <= MaxIter
             /\ IteratorSetParameter("convergence_tolerance", tol)
       \/ \E m \in Modes :
             /\ itpar.max_iterations <= MaxIter
             /\ IteratorSetParameter("mode", m)
       \/ \E v \in {Num(0), Num(StartValue)} : ConnectInput(v)
    /\ UNCHANGED <<projVars, nodeVars, apiVars, engVars, invVars>>

SpecIter == IterInit /\ [][IterNext]_vars


\* the iterator's last compute() ran the loop to its end and nothing has
\* invalidated the iterator since
Computed == ~it.dirty /\ it.state = "valid"

\* C25: after a compute() in fixed_count mode with max_iterations = N the
\* inner operation has been executed exactly N times.
C25_FixedCountCalls ==
    (Computed /\ itpar.mode = "fixed_count") => Len(calls) = itpar.max_iterations

\* C26: the inner operation's call of pass i >= 2 is handed the result of
\* pass i - 1, so the result of pass k is the operation applied k times;
\* the iterator of the convergence test stops before its 1000th pass with
\* a value below the tolerance.
C26_FeedsBack ==
    Computed =>
       /\ \A i \in 2..Len(passes) : Len(calls) >= i /\ calls[i] = passes[i - 1]
       /\ itpar = ConvergenceTest =>
             /\ Len(passes) < TestMaxIterations
             /\ it.cache["x"].data < itpar.convergence_tolerance

\* C27: the loop makes at most max_iterations passes; it stops before
\* max_iterations only in converge mode, at a pass from the second on whose
\* result _has_converged judges converged against the pass before, and it
\* passes no such pass by.
C27_LoopStops ==
    Computed =>
       /\ Len(passes) <= itpar.max_iterations
       /\ \A i \in 2..(Len(passes) - 1) :
             ~(/\ itpar.mode = "converge"
               /\ HasConverged(passes[i - 1], passes[i], itpar.convergence_tolerance))
       /\ Len(passes) < itpar.max_iterations =>
             /\ itpar.mode = "converge"
             /\ Len(passes) >= 2
             /\ HasConverged(passes[Len(passes) - 1], passes[Len(passes)],
                             itpar.convergence_tolerance)

\* a loop in converge mode over the halving operation that stopped at its
\* second pass with passes to spare
C27_Witness ==
    /\ Computed
    /\ itpar.mode = "converge"
    /\ itpar.operation = "halve"
    /\ Len(calls) = 1
    /\ Len(passes) = 2
    /\ itpar.max_iterations >= 3


\* ------------------------------------------------------------------------
\* Specification of _has_converged on its own
\* ------------------------------------------------------------------------
Keys == {"x", "y"}
Values == {Num(v) : v \in 0..MaxData} \cup {Text, NoneValue}
Maps == UNION {[D -> Values] : D \in SUBSET Keys}

\* any two result dicts and any tolerance
ConvInit ==
    /\ InitNodes
    /\ param = [n \in Nodes |-> DefaultParam]
    /\ ApiIdle
    /\ EngIdle
    /\ InvIdle
    /\ it = FreshNode
    /\ body = FreshNode
    /\ inner = FreshNode
    /\ down = FreshNode
    /\ \E tol \in 0..(MaxData + 1) :
          itpar = [max_iterations |-> 0, convergence_tolerance |-> tol,
                   mode |-> "converge", operation |-> "counter"]
    /\ ext = EmptyMap
    /\ calls = << >>
    /\ passes \in Maps \X Maps
    /\ converged = "none"
    /\ itops = 0

\* IteratorNode._has_converged(prev, curr, tolerance)
CheckConverged ==
    /\ converged = "none"
    /\ converged' = IF HasConverged(passes[1], passes[2], itpar.convergence_tolerance)
                    THEN "true" ELSE "false"
    /\ UNCHANGED <<it, body, inner, down, itpar, ext, calls, passes, itops>>
    /\ UNCHANGED <<projVars, nodeVars, apiVars, engVars, invVars>>

SpecConv == ConvInit /\ [][CheckConverged]_vars

\* C28: _has_converged returns true only if no key of either dict is
\* missing from the other, every value is numeric, and for every key the
\* difference is strictly below the tolerance.
C28_ConvergedOnlyIf ==
    converged = "true" =>
       /\ DOMAIN passes[1] = DOMAIN passes[2]
       /\ \A key \in DOMAIN passes[2] :
             /\ passes[1][key].kind = "num"
             /\ passes[2][key].kind = "num"
             /\ Abs(passes[2][key].data - passes[1][key].data)
                   < itpar.convergence_tolerance


\* ------------------------------------------------------------------------
\* ProjectSerializer.save followed by ProjectSerializer.load (core/io.py),
\* on a project whose node list, parameters, settings and wiring vary
\* ------------------------------------------------------------------------
\* the name of the parameter the operations declare
ParamName == "p"

\* nodes_data of _serialize_graph: id, parameters by name, state
SerializeNodes(nds, pm, nf) ==
    [k \in 1..Len(nds) |->
        [id |-> nds[k],
         parameters |-> [name \in {ParamName} |-> pm[nds[k]]],
         state |-> nf.state[nds[k]]]]

\* connections_data of _serialize_graph: the connections of the output
\* sockets of the project's nodes, by node id and socket name, each conn_key
\* once
RECURSIVE ConnectionsData(_, _, _, _)
ConnectionsData(nds, cn, k, acc) ==
    IF k > Len(nds) THEN acc
    ELSE LET out_sock == OutSock(nds[k])
             found == [j \in 1..Len(cn[out_sock]) |->
                          [source_node |-> out_sock.node,
                           source_socket |-> OutputName,
                           target_node |-> cn[out_sock][j].node,
                           target_socket |-> InputName(cn[out_sock][j].idx)]]
             RECURSIVE Unseen(_, _)
             Unseen(i, seen) ==
                 IF i > Len(found) THEN seen
                 ELSE Unseen(i + 1, IF Contains(seen, found[i]) THEN seen
                                    ELSE Append(seen, found[i]))
         IN ConnectionsData(nds, cn, k + 1, Unseen(1, acc))

\* _serialize_graph without the settings
SerializeGraphNoSettings(nds, cn, pm, nf, st) ==
    [nodes |-> SerializeNodes(nds, pm, nf),
     connections |-> ConnectionsData(nds, cn, 1, << >>),
     settings |-> [unused \in {} |-> FALSE]]

\* _serialize_graph: what json.dumps writes to graph.json and json.loads
\* reads back (ids and socket names are strings, parameter values integers,
\* auto_compute a boolean: JSON keeps each of them as it is)
SerializeGraph(nds, cn, pm, nf, st) ==
    [nodes |-> SerializeNodes(nds, pm, nf),
     connections |-> ConnectionsData(nds, cn, 1, << >>),
     settings |-> [auto_compute |-> st.auto_compute,
                   autosave_interval_minutes |-> st.autosave_interval_minutes]]

\* the ids with an entry cache/<id>.bin: the nodes whose _cached_outputs is
\* not empty
CacheEntries(nds, nf) == {n \in SeqRange(nds) : Len(nf.cache[n]) > 0}

\* settings.get(key, default)
SettingsGet(st, key, default) == IF key \in DOMAIN st THEN st[key] ELSE default

\* the "Build connections" loop of _deserialize_graph
RECURSIVE RestoreConnections(_, _, _, _)
RestoreConnections(cn, nf, ids, todo) ==
    IF todo = << >> THEN [cn |-> cn, nf |-> nf]
    ELSE LET conn == Head(todo)
         IN IF conn.source_node \in ids /\ conn.target_node \in ids
            THEN LET r == ProjectConnectOp(cn, nf, conn.source_node, conn.source_socket,
                                           conn.target_node, conn.target_socket)
                 IN RestoreConnections(r.cn, r.nf, ids, Tail(todo))
            ELSE RestoreConnections(cn, nf, ids, Tail(todo))

\* _deserialize_graph: a new project with one new node per entry of
\* graph_data["nodes"], carrying the saved id, parameter value and state
DeserializeGraph(graph_data) ==
    LET ids == {graph_data.nodes[k].id : k \in 1..Len(graph_data.nodes)}
        Data(n) == graph_data.nodes[CHOOSE k \in 1..Len(graph_data.nodes) :
                                        graph_data.nodes[k].id = n]
        nf0 == [dirty |-> [n \in Nodes |-> TRUE],
                state |-> [n \in Nodes |-> IF n \in ids THEN Data(n).state
                                           ELSE FreshFields.state[n]],
                cache |-> [n \in Nodes |-> NoCache],
                error |-> [n \in Nodes |-> NoError]]
        g == RestoreConnections([s \in Sockets |-> << >>], nf0, ids,
                                graph_data.connections)
    IN [nodes |-> [k \in 1..Len(graph_data.nodes) |-> graph_data.nodes[k].id],
        param |-> [n \in Nodes |-> IF n \in ids /\ ParamName \in DOMAIN Data(n).parameters
                                   THEN Data(n).parameters[ParamName]
                                   ELSE DefaultParam],
        cn |-> g.cn,
        nf |-> g.nf,
        settings |-> [auto_compute |->
                          SettingsGet(graph_data.settings, "auto_compute", FALSE),
                      autosave_interval_minutes |->
                          SettingsGet(graph_data.settings, "autosave_interval_minutes",
                                      DefaultSettings.autosave_interval_minutes)]]

\* the "Restore caches" loop of load in which a blob that fails to
\* deserialize lets the exception out: the load fails
RestoreCachesRaising(nds, nf, blobs, fate) ==
    IF \E n \in SeqRange(nds) : n \in DOMAIN blobs /\ fate[n] = "corrupt"
    THEN [nf |-> nf, raised |-> "Exception"]
    ELSE [nf |-> [nf EXCEPT !.dirty = [n \in Nodes |-> IF n \in DOMAIN blobs /\ fate[n] = "ok"
                                                       THEN FALSE ELSE @[n]],
                            !.state = [n \in Nodes |-> IF n \in DOMAIN blobs /\ fate[n] = "ok"
                                                       THEN "valid" ELSE @[n]],
                            !.cache = [n \in Nodes |-> IF n \in DOMAIN blobs /\ fate[n] = "ok"
                                                       THEN blobs[n] ELSE @[n]]],
          raised |-> "none"]

\* the "Restore caches" loop of load: an entry that is there and reads back
\* makes the node clean and VALID, one that fails to read makes it dirty and
\* DIRTY, a node without entry is left as _deserialize_graph made it
RestoreCaches(nds, nf, blobs, fate) ==
    LET there == {n \in SeqRange(nds) : n \in DOMAIN blobs /\ fate[n] # "missing"}
        reads == {n \in there : fate[n] = "ok"}
    IN [nf |-> [nf EXCEPT !.dirty = [n \in Nodes |-> IF n \in reads THEN FALSE
                                                     ELSE IF n \in there THEN TRUE
                                                     ELSE @[n]],
                          !.state = [n \in Nodes |-> IF n \in reads THEN "valid"
                                                     ELSE IF n \in there THEN "dirty"
                                                     ELSE @[n]],
                          !.cache = [n \in Nodes |-> IF n \in reads THEN blobs[n]
                                                     ELSE @[n]]],
        raised |-> "none"]

\* save(project) then load(archive); fate says, per cache entry, whether the
\* archive still holds it intact when it is loaded
SaveLoadProjectOp(nds, cn, pm, nf, st, fate) ==
    LET graph_data == SerializeGraph(nds, cn, pm, nf, st)
        blobs == [n \in CacheEntries(nds, nf) |-> nf.cache[n]]
        project == DeserializeGraph(graph_data)
        r == RestoreCaches(project.nodes, project.nf, blobs, fate)
    IN [project EXCEPT !.nf = r.nf] @@ [raised |-> r.raised, entries |-> DOMAIN blobs]

SaveLoadProject(fate) ==
    /\ \A n \in Nodes : n \notin CacheEntries(nodes, NodeFields) => fate[n] = "ok"
    /\ \E r \in {SaveLoadProjectOp(nodes, conns, param, NodeFields, settings, fate)} :
          /\ lastOp' = [op |-> "load", node |-> 0, res |-> r.raised,
                        entries |-> r.entries, fate |-> fate]
          /\ IF r.raised = "none"
             THEN /\ nodes' = r.nodes
                  /\ settings' = r.settings
                  /\ conns' = r.cn
                  /\ param' = r.param
                  /\ SetFields(r.nf)
             ELSE UNCHANGED <<projVars, nodeVars>>
    /\ UNCHANGED <<nops, engVars, invVars, iterVars>>

\* the settings a caller gives the project
SettingsValues ==
    {DefaultSettings,
     [auto_compute |-> TRUE, autosave_interval_minutes |-> 5],
     [auto_compute |-> FALSE, autosave_interval_minutes |-> 1]}

\* the wiring: each input connected to some output that its type accepts, or
\* to none; the nodes in computed are clean and hold the outputs of their
\* operation
Wired(src, computed) ==
    LET wired == SelectSeq(SetToSeq(InSockets),
                           LAMBDA s : src[s] # 0 /\ Accepts(s, OutSock(src[s])))
        todo == [k \in 1..Len(wired) |-> <<OutSock(src[wired[k]]), wired[k]>>]
    IN /\ src = [s \in InSockets |-> IF Contains(wired, s) THEN src[s] ELSE 0]
       /\ conns = BuildGraph([s \in Sockets |-> << >>], FreshFields, todo).cn
       /\ dirty = [n \in Nodes |-> n \notin computed]
       /\ state = [n \in Nodes |-> IF n \in computed THEN "valid" ELSE "dirty"]
       /\ cache = [n \in Nodes |-> IF n \in computed
                                   THEN Execute(n, << >>, param[n])
                                   ELSE NoCache]
       /\ error = [n \in Nodes |-> NoError]

\* an edited project: the nodes added to it, in either order, with at most
\* one node that was created but never added; one parameter edited; the
\* settings edited; nothing or everything computed
SaveInit ==
    /\ \E out \in Nodes \cup {0} : \E rev \in BOOLEAN :
          LET members == SelectSeq(NodeList, LAMBDA n : n # out)
          IN nodes = IF rev THEN Reverse(members) ELSE members
    /\ settings \in SettingsValues
    /\ \E n \in Nodes : \E v \in ParamValues :
          param = [m \in Nodes |-> IF m = n THEN v ELSE DefaultParam]
    /\ \E src \in [InSockets -> Nodes \cup {0}] :
       \E computed \in {{}, SeqRange(nodes)} : Wired(src, computed)
    /\ ApiIdle
    /\ EngIdle
    /\ InvIdle
    /\ IterIdle

\* the archive is loaded as it was written
SaveNext == SaveLoadProject([n \in Nodes |-> "ok"])

SpecSave == SaveInit /\ [][SaveNext]_vars

\* a computed project: any of its nodes clean
CacheInit ==
    /\ nodes = NodeList
    /\ settings = DefaultSettings
    /\ param = [n \in Nodes |-> DefaultParam]
    /\ \E src \in [InSockets -> Nodes \cup {0}] :
       \E computed \in SUBSET Nodes : Wired(src, computed)
    /\ ApiIdle
    /\ EngIdle
    /\ InvIdle
    /\ IterIdle

\* between save and load any cache entry may be damaged or removed
CacheNext == \E fate \in [Nodes -> CacheFates] : SaveLoadProject(fate)

SpecCache == CacheInit /\ [][CacheNext]_vars

\* the connections of a project, source socket to target socket: those
\* between two of its nodes, read from either end
ProjectConnections(nds, cn) ==
    {pr \in OutSockets \X InSockets :
        /\ pr[1].node \in SeqRange(nds)
        /\ pr[2].node \in SeqRange(nds)
        /\ Contains(cn[pr[1]], pr[2]) \/ Contains(cn[pr[2]], pr[1])}

\* C29: saving a project and loading the archive gives a project with the
\* same node ids in the same order, the same parameter value on every node,
\* the same set of connections between its nodes (source node and socket to
\* target node and socket), and the same auto_compute and autosave-interval
\* settings.
C29_RoundTrip ==
    [][/\ lastOp'.op = "load"
       /\ lastOp'.res = "none"
       /\ nodes' = nodes
       /\ \A n \in SeqRange(nodes) : param'[n] = param[n]
       /\ ProjectConnections(nodes', conns') = ProjectConnections(nodes, conns)
       /\ settings'.auto_compute = settings.auto_compute
       /\ settings'.autosave_interval_minutes = settings.autosave_interval_minutes]_vars

\* a loaded project whose node list is not in creation order, with an output
\* feeding two inputs, an edited parameter and edited settings
C29_Witness ==
    /\ lastOp.op = "load"
    /\ Len(nodes) >= 2
    /\ nodes[1] > nodes[2]
    /\ \E n \in SeqRange(nodes) :
          /\ Len(conns[OutSock(n)]) >= 2
          /\ \A k \in 1..Len(conns[OutSock(n)]) : conns[OutSock(n)][k].node \in SeqRange(nodes)
    /\ \E n \in SeqRange(nodes) : param[n] # DefaultParam
    /\ settings # DefaultSettings

\* C30: when the archive's cache entry of some node is corrupted or has been
\* removed, load still returns the project, every node whose entry is
\* damaged or gone is dirty, and every other node that had an entry is clean,
\* VALID and holds its cache again.
C30_DamagedCache ==
    (lastOp.op = "load" /\ \E n \in lastOp.entries : lastOp.fate[n] # "ok") =>
        /\ lastOp.res = "none"
        /\ \A n \in lastOp.entries :
              /\ n \in SeqRange(nodes)
              /\ IF lastOp.fate[n] = "ok"
                 THEN ~dirty[n] /\ state[n] = "valid" /\ Len(cache[n]) > 0
                 ELSE dirty[n]

\* a load where a corrupted entry, a removed entry and an intact entry met,
\* the node of the corrupted entry feeding the node of the intact one
C30_Witness ==
    /\ lastOp.op = "load"
    /\ \E a, b, c \in lastOp.entries :
          /\ lastOp.fate[a] = "corrupt"
          /\ lastOp.fate[b] = "ok"
          /\ lastOp.fate[c] = "missing"
          /\ \E k \in 1..Len(conns[OutSock(a)]) : conns[OutSock(a)][k].node = b
          /\ dirty[a] /\ dirty[c] /\ ~dirty[b]


\* ------------------------------------------------------------------------
\* Node.compute on an operation whose output fails DataWrapper.validate(),
\* then save and load
\* ------------------------------------------------------------------------
\* compute() of node n when the outputs its operation returns fail
\* validate(): execute has returned and _cached_outputs is already assigned
\* when the validation loop raises, so the except clause records the error
\* and the node stays dirty with the rejected outputs in its cache.  The
\* nodes upstream of n return outputs that pass.
ComputeInvalidOp(cn, pm, nf, n) ==
    LET r == ComputeOp(cn, pm, nf, n, {})
    IN IF nf.dirty[n] /\ r.ok
       THEN [r EXCEPT !.nf = [r.nf EXCEPT !.dirty[n] = TRUE,
                                          !.error[n] = "TypeError",
                                          !.state[n] = "error"],
                      !.ok = FALSE,
                      !.val = "TypeError",
                      !.unwound = <<n>>]
       ELSE r

ComputeInvalid(n) ==
    \E r \in {ComputeInvalidOp(conns, param, NodeFields, n)} :
       /\ SetFields(r.nf)
       /\ UNCHANGED <<conns, param>>
       /\ lastOp' = [op |-> "compute", node |-> n,
                     res |-> [ok |-> r.ok, val |-> r.val, execd |-> r.execd],
                     unwound |-> r.unwound]

\* a wired project in which nothing is computed yet and one parameter may
\* have been edited
ArchiveInit ==
    /\ nodes = NodeList
    /\ settings = DefaultSettings
    /\ \E n \in Nodes : \E v \in ParamValues :
          param = [m \in Nodes |-> IF m = n THEN v ELSE DefaultParam]
    /\ \E src \in [InSockets -> Nodes \cup {0}] : Wired(src, {})
    /\ ApiIdle
    /\ EngIdle
    /\ InvIdle
    /\ IterIdle

\* the caller computes and invalidates nodes, then saves the project and
\* loads the archive
ArchiveNext ==
    \/ /\ nops < MaxConnOps
       /\ lastOp.op # "load"
       /\ nops' = nops + 1
       /\ \/ \E n \in Nodes : Compute(n)
          \/ \E n \in Nodes : ComputeInvalid(n)
          \/ \E n \in Nodes : Invalidate(n)
       /\ UNCHANGED <<projVars, engVars, invVars, iterVars>>
    \/ /\ lastOp.op # "load"
       /\ SaveLoadProject([n \in Nodes |-> "ok"])

SpecArchive == ArchiveInit /\ [][ArchiveNext]_vars

\* C31: save writes a cache entry for exactly the nodes that are clean, so
\* no node that was dirty when the project was saved (never computed,
\* invalidated, or left by a failed compute) is clean and VALID after load.
C31_CacheOnlyForClean ==
    [][lastOp'.op = "load" =>
          /\ lastOp'.entries = {n \in SeqRange(nodes) : ~dirty[n]}
          /\ \A n \in SeqRange(nodes) :
                dirty[n] => ~(~dirty'[n] /\ state'[n] = "valid")]_vars


\* ------------------------------------------------------------------------
\* ConcreteType.accepts on pairs of concrete types (core/types.py)
\* ------------------------------------------------------------------------
\* the wrapper kinds, datatype tags and shapes the pairs are drawn from; a
\* shape of length 0 stands for shape=None (an empty tuple is as falsy)
WrapperKinds == {"DataWrapper", "TimeSeries", "DistanceMatrix"}
DtypeTags == {NoDtype, "float64", "int32"}
ShapeDims == {AnyDim} \cup (1..(MaxData + 1))
Shapes == {NoShape} \cup [1..1 -> ShapeDims] \cup [1..2 -> ShapeDims]
ConcreteTypes == {ConcreteType(w, t, s) : w \in WrapperKinds, t \in DtypeTags, s \in Shapes}

\* the caller holds two concrete types
TypesInit ==
    /\ InitNodes
    /\ param = [n \in Nodes |-> DefaultParam]
    /\ \E A \in ConcreteTypes, B \in ConcreteTypes :
          lastOp = [op |-> "types", node |-> 0, res |-> "none", self |-> A, other |-> B]
    /\ nops = 0
    /\ EngIdle
    /\ InvIdle
    /\ IterIdle

\* A.accepts(B)
AcceptsCall ==
    /\ lastOp.op = "types"
    /\ lastOp' = [lastOp EXCEPT !.op = "accepts",
                                !.res = IF TypeAccepts(lastOp.self, lastOp.other)
                                        THEN "true" ELSE "false"]
    /\ UNCHANGED <<nops, projVars, nodeVars, engVars, invVars, iterVars>>

SpecTypes == TypesInit /\ [][AcceptsCall]_vars

\* C32: for concrete types A and B, A.accepts(B) is true exactly when B's
\* kind is A's kind or a refinement of it, and A has no datatype constraint
\* or its datatype is B's, and A has no shape constraint or B's shape has as
\* many dimensions and equals A's in every dimension that is not None in A;
\* also when A is constrained and B declares no datatype or no shape.
C32_AcceptsIff ==
    lastOp.op = "accepts" =>
        LET A == lastOp.self
            B == lastOp.other
        IN (lastOp.res = "true") <=>
              /\ IsSubclass(B.wrapper_cls, A.wrapper_cls)
              /\ A.dtype = NoDtype \/ A.dtype = B.dtype
              /\ \/ A.shape = NoShape
                 \/ /\ Len(A.shape) = Len(B.shape)
                    /\ \A d \in 1..Len(A.shape) :
                          A.shape[d] = AnyDim \/ A.shape[d] = B.shape[d]


\* ------------------------------------------------------------------------
\* GraphValidator._check_illegal_cycles (core/validation.py) next to
\* ExecutionPlanner.topological_sort
\* ------------------------------------------------------------------------
\* ids of the nodes inside some IteratorNode's body: the project holds
\* ordinary nodes only
IteratorBodyIds == {}

RECURSIVE Dfs(_, _, _, _), DfsChildren(_, _, _, _, _)

\* the loop of dfs over adjacency[nid] that does not treat a gray child as a
\* back edge
DfsChildrenNoBackEdge(cn, ids, nid, kids, st) ==
    IF kids = << >>
    THEN [st |-> [st EXCEPT !.color[nid] = 2], found |-> FALSE]
    ELSE LET child == Head(kids)
         IN IF st.color[child] = 0
            THEN Dfs(cn, ids, child, st)
            ELSE DfsChildren(cn, ids, nid, Tail(kids), st)

\* what dfs does with the result of dfs(child)
AfterChild(cn, ids, nid, kids, r) ==
    IF r.found
    THEN [st |-> [r.st EXCEPT !.cycle_nodes = @ \cup {nid}], found |-> TRUE]
    ELSE DfsChildren(cn, ids, nid, Tail(kids), r.st)

\* the loop of dfs over adjacency[nid], from the child at the head of kids on
DfsChildren(cn, ids, nid, kids, st) ==
    IF kids = << >>
    THEN [st |-> [st EXCEPT !.color[nid] = 2], found |-> FALSE]
    ELSE LET child == Head(kids)
         IN IF child \in IteratorBodyIds /\ nid \in IteratorBodyIds
            THEN DfsChildren(cn, ids, nid, Tail(kids), st)
            ELSE IF st.color[child] = 1
            THEN [st |-> [st EXCEPT !.cycle_nodes = @ \cup {nid, child}], found |-> TRUE]
            ELSE IF st.color[child] = 0
            THEN AfterChild(cn, ids, nid, kids, Dfs(cn, ids, child, st))
            ELSE DfsChildren(cn, ids, nid, Tail(kids), st)

\* dfs(nid): colors 0 white, 1 gray, 2 black
Dfs(cn, ids, nid, st) ==
    DfsChildren(cn, ids, nid, Adjacency(cn, nid, ids), [st EXCEPT !.color[nid] = 1])

\* "for nid in node_ids: if color[nid] == 0: dfs(nid)", node_ids (a set)
\* being iterated in the given order
RECURSIVE DfsRoots(_, _, _, _)
DfsRoots(cn, ids, order, st) ==
    IF order = << >> THEN st
    ELSE IF st.color[Head(order)] = 0
    THEN DfsRoots(cn, ids, Tail(order), Dfs(cn, ids, Head(order), st).st)
    ELSE DfsRoots(cn, ids, Tail(order), st)

\* _check_illegal_cycles: the node ids of the error messages
CheckIllegalCycles(nds, cn, order) ==
    LET ids == SeqRange(nds)
    IN DfsRoots(cn, ids, order,
                [color |-> [n \in ids |-> 0], cycle_nodes |-> {}]).cycle_nodes \cap ids

\* the orders a set can be iterated in
Orders(S) == {o \in [1..Cardinality(S) -> S] : \A i, j \in 1..Cardinality(S) : o[i] = o[j] => i = j}

\* a wired project, its nodes in either order, with at most one node that
\* was created but never added
ValidateInit ==
    /\ \E out \in Nodes \cup {0} : \E rev \in BOOLEAN :
          LET members == SelectSeq(NodeList, LAMBDA n : n # out)
          IN nodes = IF rev THEN Reverse(members) ELSE members
    /\ settings = DefaultSettings
    /\ param = [n \in Nodes |-> DefaultParam]
    /\ \E src \in [InSockets -> Nodes \cup {0}] : Wired(src, {})
    /\ ApiIdle
    /\ EngIdle
    /\ InvIdle
    /\ IterIdle

\* the caller asks the validator for the illegal cycles and the planner for
\* the order of all nodes
ValidateAndSort(order) ==
    /\ lastOp.op = "init"
    /\ lastOp' = [op |-> "validate", node |-> 0,
                  res |-> CheckIllegalCycles(nodes, conns, order),
                  order |-> order,
                  raised |-> TopologicalSort(conns, dirty, FALSE).raised]
    /\ UNCHANGED <<nops, projVars, nodeVars, engVars, invVars, iterVars>>

ValidateNext == \E order \in Orders(SeqRange(nodes)) : ValidateAndSort(order)

SpecValidate == ValidateInit /\ [][ValidateNext]_vars

C34_GroupedByBranch ==
    mpc = "returned" =>
        /\ \A k \in 1..Len(all_results) :
              \E b \in Tasks : Contains(branches[b], all_results[k].node_id)
        /\ \A i \in 1..Len(all_results) : \A j \in (i + 1)..Len(all_results) :
              LET m == all_results[i].node_id
                  n == all_results[j].node_id
              IN /\ BranchOf(m) <= BranchOf(n)
                 /\ BranchOf(m) = BranchOf(n) =>
                       /\ IndexOf(branches[BranchOf(m)], m)
                             < IndexOf(branches[BranchOf(m)], n)
                       /\ n \notin AncestorsWithin({m}, Nodes)

\* a threaded run of three branches that returned results of each, two of
\* them from one branch
C34_Witness ==
    /\ mpc = "returned"
    /\ parallel
    /\ Len(branches) >= 2
    /\ \A b \in Tasks : Len(results[b]) >= 1
    /\ \E b \in Tasks : Len(results[b]) >= 2 /\ b < Len(branches)


\* ------------------------------------------------------------------------
\* A caller that edits and computes the graph through every call of the
\* project API on ordinary nodes, without save and load
\* ------------------------------------------------------------------------
\* Project.add_node: a new node of an operation, not connected, appended to
\* project.nodes.  It takes the place of a node that was removed and is no
\* longer connected to anything.
AddNode(n) ==
    /\ ~Contains(nodes, n)
    /\ \A i \in 1..InCount(n) : conns[InSock(n, i)] = << >>
    /\ conns[OutSock(n)] = << >>
    /\ nodes' = Append(nodes, n)
    /\ dirty' = [dirty EXCEPT ![n] = TRUE]
    /\ state' = [state EXCEPT ![n] = "idle"]
    /\ cache' = [cache EXCEPT ![n] = NoCache]
    /\ error' = [error EXCEPT ![n] = NoError]
    /\ param' = [param EXCEPT ![n] = DefaultParam]
    /\ conns' = conns
    /\ lastOp' = [op |-> "add_node", node |-> n, res |-> "none"]

EditStep ==
    \/ \E self \in OutSockets, other \in InSockets : ConnectTo(self, other)
    \/ \E self \in InSockets, other \in OutSockets : Disconnect(self, other) /\ nodes' = nodes
    \/ \E n \in Nodes : RemoveNode(n)
    \/ \E n \in Nodes : AddNode(n)
    \/ \E n \in Nodes : Invalidate(n) /\ nodes' = nodes
    \/ \E n \in Nodes, v \in ParamValues : SetParameter(n, v) /\ nodes' = nodes
    \/ \E n \in Nodes : Compute(n) /\ nodes' = nodes
    \/ \E n \in Nodes : ComputeInvalid(n) /\ nodes' = nodes

EditNext ==
    /\ nops < MaxConnOps
    /\ nops' = nops + 1
    /\ EditStep
    /\ UNCHANGED <<settings, engVars, invVars, iterVars>>

\* a new project holding one node of each operation, nothing connected
EditInit ==
    /\ InitNodes
    /\ param = [n \in Nodes |-> DefaultParam]
    /\ ApiIdle
    /\ EngIdle
    /\ InvIdle
    /\ IterIdle

SpecEdit == EditInit /\ [][EditNext]_vars

\* C35: in every state reached through add_node, connect, disconnect,
\* set_parameter, invalidate, compute (succeeding or failing) and
\* remove_node, no clean node has a dirty node connected to one of its
\* inputs.
C35_CleanHasCleanParents ==
    \A n \in Nodes : ~dirty[n] =>
        \A i \in 1..InCount(n) : \A k \in 1..Len(conns[InSock(n, i)]) :
            ~dirty[conns[InSock(n, i)][k].node]

\* a computed node whose source was invalidated afterwards: both are DIRTY
C35_Witness ==
    /\ lastOp.op = "invalidate"
    /\ ~lastOp.res.was_dirty
    /\ \E c \in Nodes : \E i \in 1..InCount(c) :
          /\ c # lastOp.node
          /\ conns[InSock(c, i)] = <<OutSock(lastOp.node)>>
          /\ state[c] = "dirty"
          /\ state[lastOp.node] = "dirty"


\* C36: when a project was loaded with node A dirty (its cache entry missing
\* or corrupt) and a node B fed by A restored clean, a set_parameter or
\* invalidate on A right after the load marks B dirty, so that compute() on
\* B does not return the restored cache.
C36_LoadedStaleCache ==
    [][(lastOp.op = "load" /\ lastOp'.op \in {"invalidate", "set_parameter"}
                           /\ dirty[lastOp'.node]) =>
          \A B \in Nodes :
             (~dirty[B] /\ \E i \in 1..InCount(B) :
                              conns[InSock(B, i)] = <<OutSock(lastOp'.node)>>)
                => /\ dirty'[B]
                   /\ ComputeOp(conns', param', [dirty |-> dirty', state |-> state',
                                                cache |-> cache', error |-> error'],
                                B, {}).val # cache[B]]_vars


\* C37: when run() has returned, for either dirty_only setting and whether
\* nodes were clean or dirty before, no node is in state COMPUTING, and
\* every node a branch recorded a result for is VALID or ERROR.
C37_NoneLeftComputing ==
    mpc = "returned" =>
        /\ \A n \in Nodes : state[n] # "computing"
        /\ \A k \in 1..Len(all_results) :
              state[all_results[k].node_id] \in {"valid", "error"}


\* C38: after load a node is VALID only if its cache was restored and it is
\* clean; a node loaded without a cache that could be restored is dirty and
\* not VALID, whatever state the archive recorded for it.
C38_ValidOnlyWithCache ==
    lastOp.op = "load" =>
        \A n \in SeqRange(nodes) :
           /\ state[n] = "valid" =>
                 (~dirty[n] /\ n \in lastOp.entries /\ lastOp.fate[n] = "ok")
           /\ (n \notin lastOp.entries \/ lastOp.fate[n] # "ok") =>
                 (dirty[n] /\ state[n] # "valid")


\* C39: when the node wired to the iterator's input is invalidated or
\* connected anew after the iterator has computed, so that the invalidation
\* arrives at the input socket or the value it delivers changes, the
\* IteratorNode itself becomes dirty.
C39_UpstreamDirtiesIterator ==
    [][(Computed /\ (ext' # ext \/ (~body.dirty /\ body'.dirty))) => it'.dirty]_vars


\* ------------------------------------------------------------------------
\* Specification of the calls made on one CompositeNode of two nodes
\* ------------------------------------------------------------------------
\* the values the node connected to the exposed input returns
SourceValues == {Num(0), Num(Hundredths), Num(StartValue)}

\* CompositeNode(sub, [(inner, "x")], [(down, "x")]), inner's output "x"
\* connected to down's input "x", a source connected to the exposed input
CompositeInit ==
    /\ InitNodes
    /\ param = [n \in Nodes |-> DefaultParam]
    /\ ApiIdle
    /\ EngIdle
    /\ InvIdle
    /\ it = FreshNode
    /\ body = FreshNode
    /\ inner = FreshNode
    /\ down = FreshNode
    /\ \E o \in InnerOperations :
          itpar = [max_iterations |-> 0, convergence_tolerance |-> 0,
                   mode |-> "fixed_count", operation |-> o]
    /\ \E v \in SourceValues : ext = MapOf("x", v)
    /\ calls = << >>
    /\ passes = << >>
    /\ converged = "none"
    /\ itops = 0

\* body.compute(); calls keeps the input dicts handed to execute()
CompositeComputeCall ==
    \E r \in {ChainCompute(body, inner, down, itpar.operation, ext, << >>)} :
       /\ body' = r.body
       /\ inner' = r.inner
       /\ down' = r.down
       /\ calls' = r.calls
       /\ UNCHANGED <<it, itpar, ext, passes, converged>>

\* the source's parameter is edited and the source returns v from then on:
\* its invalidate() reaches the body through the exposed input socket
SourceChanged(v) ==
    /\ ext' = MapOf("x", v)
    /\ body' = InvalidateAlone(body)
    /\ UNCHANGED <<it, inner, down, itpar, calls, passes, converged>>

CompositeNext ==
    /\ itops < MaxIterOps
    /\ itops' = itops + 1
    /\ \/ CompositeComputeCall
       \/ \E v \in SourceValues : SourceChanged(v)
    /\ UNCHANGED <<projVars, nodeVars, apiVars, engVars, invVars>>

SpecComposite == CompositeInit /\ [][CompositeNext]_vars

\* what a composite none of whose nodes has computed returns for the same
\* input
FreshOutputs(operation, external) ==
    ChainCompute(FreshNode, FreshNode, FreshNode, operation, external, << >>).val

\* C40: a CompositeNode recomputed after the value on its connected exposed
\* input changed returns outputs derived from the new value: what compute()
\* leaves in the composite's cache is what its nodes compute from the
\* current input, no node after the injected one serving an older cache.
C40_RecomputeUsesNewInput ==
    (~body.dirty /\ body.state = "valid") =>
        body.cache = FreshOutputs(itpar.operation, ext)


\* ------------------------------------------------------------------------
\* Specification of the project API used by one caller
\* ------------------------------------------------------------------------
Init ==
    /\ InitNodes
    /\ param = [n \in Nodes |-> DefaultParam]
    /\ ApiIdle
    /\ EngIdle
    /\ InvIdle
    /\ IterIdle

\* one call of the project API by the single-threaded caller
Step ==
    \/ \E src \in OutSockets, tgt \in InSockets : Connect(src, tgt)
    \/ \E self \in InSockets : \E k \in 1..Len(conns[self]) : Disconnect(self, conns[self][k])
    \/ \E n \in Nodes : Invalidate(n)
    \/ \E n \in Nodes, v \in ParamValues : SetParameter(n, v)
    \/ \E n \in Nodes : Compute(n)
    \/ \E fate \in [Nodes -> CacheFates] :
          /\ Cardinality({n \in Nodes : fate[n] # "ok"}) <= 1
          /\ \A n \in Nodes : fate[n] # "ok" => Len(cache[n]) > 0
          /\ SaveLoad(fate)

Next ==
    /\ nops < MaxOps
    /\ nops' = nops + 1
    /\ Step
    /\ UNCHANGED <<projVars, engVars, invVars, iterVars>>

Spec == Init /\ [][Next]_vars

\* the same caller, with engine runs in place of save and load
SpecRun == Init /\ [][RunNext]_vars

\* a caller that edits the graph through the project and the sockets
SpecConn == Init /\ [][ConnNext]_vars

====
